---------------------------- MODULE Spec2Model ----------------------------
(***************************************************************************)
(* State-machine model of the RocksDB bindings of the cognitive engine     *)
(* (src/plugins/cognitive_engine/rocksdb_stubs.c, HAVE_ROCKSDB build).     *)
(*                                                                         *)
(* The binding is glue around the storage engine.  The engine itself is    *)
(* modelled by the contract of the C API calls the binding makes           *)
(* (the definitions whose names start with rocksdb): an on-disk store per  *)
(* path holding one ordered key space per column family, a lock per path,  *)
(* atomic writes, and iterators reading the view pinned at creation. Every *)
(* call that reports through `&err` can fail: the failure is an input      *)
(* (`fault`) chosen by the environment.                                    *)
(*                                                                         *)
(* The compression argument of open only selects an engine option and has  *)
(* no effect on the logical contents; it is not an input of the model.     *)
(***************************************************************************)
EXTENDS Integers, Sequences, FiniteSets, TLC

(***************************************************************************)
(* Bounds and input samples                                                *)
(***************************************************************************)
MaxHandles == 2        \* database handles (OCaml custom blocks) ever created
MaxBatches == 1        \* batch handles ever created
MaxIters == 1          \* iterator handles ever created
MaxSnaps == 1          \* snapshot handles ever created
MaxBatchOps == 2       \* cap on wrapper->n_ops in the guards
MaxThreads == 2        \* threads that call the binding
MaxCtxs == 2           \* tensor contexts ever created
MaxTensors == 2        \* tensor wrappers ever created
MaxGraphs == 1         \* graph wrappers ever created

Handles == 1..MaxHandles
Batches == 1..MaxBatches
Iters == 1..MaxIters
Snaps == 1..MaxSnaps
Threads == 1..MaxThreads
Ctxs == 1..MaxCtxs
Tensors == 1..MaxTensors
Graphs == 1..MaxGraphs

\* Byte strings are sequences of bytes 0..255.
K_a == <<97>>
K_ab == <<97, 98>>
K_b == <<98>>
K_hi == <<200>>
Keys == {K_a, K_ab, K_b, K_hi}
V_empty == <<>>
V_x == <<120>>
V_y == <<121>>
Values == {V_empty, V_x, V_y}
Paths == {"p", "q"}
NoPath == "-"

\* OCaml option results: None is Val_int(0), Some(v) a block holding v.
None == <<>>
Some(v) == <<v>>
Opt == {None} \cup {Some(v) : v \in Values}

n_cf == 8
CFIdx == 0..(n_cf - 1)

\* Error outcomes of a call (the caml_failwith message class) and "ok".
Ok == "ok"
NotOpen == "database not open"
OpenFailed == "rocksdb_open failed"
AllocFailed == "failed to allocate wrapper"
BackendFailed == "backend error"
InvalidBatch == "invalid batch"
InvalidIter == "invalid iterator"
\* A call that left the contract of the engine (use of a released engine
\* object): it either returns normally with an arbitrary effect or ends the
\* process.
Crashed == "crashed"

(***************************************************************************)
(* State                                                                   *)
(***************************************************************************)
VARIABLES
    store,      \* engine state per path: column families, contents, lock
    db,         \* database handles: the rocksdb_wrapper behind each value
    batch,      \* batch handles: the rocksdb_batch_wrapper behind each value
    iter,       \* iterator handles: the rocksdb_iter_wrapper + engine cursor
    snap,       \* snapshot handles: the rocksdb_snapshot_wrapper
    last,       \* the most recent binding call and what the caller saw
    lastMut,    \* per path: the most recent successful point mutation
    calls,      \* per thread: the binding call the thread is executing
    ggml        \* tensor binding: context, tensor and graph wrappers

vars == <<store, db, batch, iter, snap, last, lastMut, calls, ggml>>

\* A thread that is in no call of the binding.
NoCall == [pc |-> "idle"]

\* The state of the storage binding, and the state outside it.
rocksdb_vars == <<store, db, batch, iter, snap, lastMut>>
other_vars == <<calls, ggml>>

\* The contents of one column family: a set of <<key, value>> entries, at
\* most one per key.
EmptyCF == {}
Lookup(cf, key) ==
    IF \E e \in cf : e[1] = key THEN Some((CHOOSE e \in cf : e[1] = key)[2]) ELSE None
Upsert(cf, key, val) == {e \in cf : e[1] # key} \cup {<<key, val>>}
Remove(cf, key) == {e \in cf : e[1] # key}

\* A path on which no store exists yet.
NoStore == [cfs |-> {}, data |-> [c \in CFIdx |-> EmptyCF], locked |-> FALSE]

\* Rocksdb_val(v) == NULL is st = "closed"; st = "none" is a value that the
\* program has not created yet.  cf_handles holds the indices whose handle
\* is not NULL.
NullDb == [st |-> "none", path |-> NoPath, cf_handles |-> {}]
ClosedDb == [NullDb EXCEPT !.st = "closed"]

NoMut == [kind |-> "none", h |-> 0, ns |-> 0, key |-> <<>>, val |-> <<>>, over |-> FALSE]

Call(op, id, args, fault, err, res) ==
    [op |-> op, id |-> id, args |-> args, fault |-> fault, err |-> err, res |-> res]

IsOpen(h) == db[h].st = "open"

\* The process is still running.
Alive == last.err # Crashed

(***************************************************************************)
(* Engine contract: point reads and writes                                 *)
(***************************************************************************)
\* rocksdb_get / rocksdb_get_cf: NULL if not found, the stored bytes and
\* their length otherwise.
rocksdb_get(p, cf, key) == Lookup(store[p].data[cf], key)

\* rocksdb_put / rocksdb_put_cf
rocksdb_put(s, p, cf, key, val) == [s EXCEPT ![p].data[cf] = Upsert(@, key, val)]

\* rocksdb_delete / rocksdb_delete_cf
rocksdb_delete(s, p, cf, key) == [s EXCEPT ![p].data[cf] = Remove(@, key)]

(***************************************************************************)
(* Column family selection of every point operation                        *)
(***************************************************************************)
\* Variant of the selection: an index beyond the registry selects the last
\* family.
CfRouteClamp(h, cf_idx) ==
    IF cf_idx >= n_cf /\ (n_cf - 1) \in db[h].cf_handles THEN n_cf - 1
    ELSE IF cf_idx > 0 /\ cf_idx < n_cf /\ cf_idx \in db[h].cf_handles THEN cf_idx ELSE 0

CfRoute(h, cf_idx) ==
    IF cf_idx > 0 /\ cf_idx < n_cf /\ cf_idx \in db[h].cf_handles THEN cf_idx ELSE 0

(***************************************************************************)
(* Database management                                                     *)
(***************************************************************************)
\* rocksdb_open_column_families with create_missing_column_families = 1:
\* opens the store with all n_cf families, creating the missing ones.
rocksdb_open_column_families_ok(p, create_if_missing, fault) ==
    /\ ~fault
    /\ ~store[p].locked
    /\ (store[p].cfs = {} => create_if_missing)

\* rocksdb_open: opens the store with the default family only, which the
\* engine refuses when the store holds further families.
rocksdb_open_ok(p, create_if_missing, fault) ==
    /\ ~fault
    /\ ~store[p].locked
    /\ (store[p].cfs = {} => create_if_missing)
    /\ (store[p].cfs # {} => store[p].cfs = {0})

\* The value the program receives from a successful open.
NewHandle == CHOOSE h \in Handles : db[h].st = "none" /\ \A g \in Handles : db[g].st = "none" => h <= g

\* What open leaves in the engine and in the handle table once the engine
\* handle `cfh` (the cf_handles[] array) is in hand: the wrapper is
\* allocated, or on allocation failure the engine is closed again.
OpenFinish(p, create_if_missing, cfs, cfh, oom, fault) ==
    IF oom
    THEN /\ store' = [store EXCEPT ![p].cfs = cfs, ![p].locked = FALSE]
         /\ last' = Call("open", 0, <<p, create_if_missing>>, TRUE, AllocFailed, FALSE)
         /\ UNCHANGED db
    ELSE /\ \E h \in Handles : db[h].st = "none"
         /\ store' = [store EXCEPT ![p].cfs = cfs, ![p].locked = TRUE]
         /\ db' = [db EXCEPT ![NewHandle] = [st |-> "open", path |-> p, cf_handles |-> cfh]]
         /\ last' = Call("open", NewHandle, <<p, create_if_missing>>, fault, Ok, TRUE)

\* Variant of open: the failure of the second engine open is dropped like
\* the failures of family creation, and the wrapper is built all the same.
caml_rocksdb_open_ErrDropped(p, create_if_missing, f) ==
    /\ Alive
    /\ UNCHANGED other_vars
    /\ IF rocksdb_open_column_families_ok(p, create_if_missing, f.err1)
       THEN OpenFinish(p, create_if_missing, CFIdx, CFIdx, f.oom, f.err1)
       ELSE IF rocksdb_open_ok(p, create_if_missing, f.err2)
       THEN OpenFinish(p, create_if_missing,
                       {0} \cup ((1..(n_cf - 1)) \ f.failed),
                       (1..(n_cf - 1)) \ f.failed,
                       f.oom, TRUE)
       ELSE OpenFinish(p, create_if_missing, store[p].cfs,
                       (1..(n_cf - 1)) \ f.failed, f.oom, TRUE)
    /\ UNCHANGED <<batch, iter, snap, lastMut>>

caml_rocksdb_open(p, create_if_missing, f) ==
    /\ Alive
    /\ UNCHANGED other_vars
    /\ IF rocksdb_open_column_families_ok(p, create_if_missing, f.err1)
       THEN OpenFinish(p, create_if_missing, CFIdx, CFIdx, f.oom, f.err1)
       ELSE IF rocksdb_open_ok(p, create_if_missing, f.err2)
       THEN \* fallback: create the families one by one, errors dropped
            OpenFinish(p, create_if_missing,
                       {0} \cup ((1..(n_cf - 1)) \ f.failed),
                       (1..(n_cf - 1)) \ f.failed,
                       f.oom, TRUE)
       ELSE /\ last' = Call("open", 0, <<p, create_if_missing>>, f.err1 \/ f.err2, OpenFailed, FALSE)
            /\ UNCHANGED <<store, db>>
    /\ UNCHANGED <<batch, iter, snap, lastMut>>

\* Variant of close: a handle that is not open is an error.
caml_rocksdb_close_Strict(h) ==
    /\ Alive
    /\ UNCHANGED other_vars
    /\ db[h].st # "none"
    /\ IF IsOpen(h)
       THEN /\ store' = [store EXCEPT ![db[h].path].locked = FALSE]
            /\ db' = [db EXCEPT ![h] = ClosedDb]
            /\ last' = Call("close", h, <<>>, FALSE, Ok, TRUE)
       ELSE /\ last' = Call("close", h, <<>>, FALSE, NotOpen, FALSE)
            /\ UNCHANGED <<store, db>>
    /\ UNCHANGED <<batch, iter, snap, lastMut>>

\* The loop of close over the namespace handles: one release for every
\* handle that is not NULL, in index order.
RECURSIVE cf_handle_destroy_loop(_, _)
cf_handle_destroy_loop(cfh, i) ==
    IF i >= n_cf THEN <<>>
    ELSE (IF i \in cfh THEN << <<"cf_handle", i>> >> ELSE <<>>)
             \o cf_handle_destroy_loop(cfh, i + 1)

\* What close does after the loop, in program order: rocksdb_close, the
\* three *_destroy calls on the configuration objects, free(path),
\* is_open = 0, free(wrapper).
close_tail ==
    << <<"db", 0>>, <<"options", 0>>, <<"write_options", 0>>, <<"read_options", 0>>,
       <<"path", 0>>, <<"is_open", 0>>, <<"wrapper", 0>> >>

\* Variant of close: the engine handle is released before the namespace
\* handles.
caml_rocksdb_close_EngineFirst(h) ==
    /\ Alive
    /\ UNCHANGED other_vars
    /\ db[h].st # "none"
    /\ IF IsOpen(h)
       THEN /\ store' = [store EXCEPT ![db[h].path].locked = FALSE]
            /\ db' = [db EXCEPT ![h] = ClosedDb]
       ELSE UNCHANGED <<store, db>>
    /\ last' = Call("close", h,
                    IF IsOpen(h)
                    THEN << <<"db", 0>> >> \o cf_handle_destroy_loop(db[h].cf_handles, 0)
                             \o Tail(close_tail)
                    ELSE <<>>,
                    FALSE, Ok, IsOpen(h))
    /\ UNCHANGED <<batch, iter, snap, lastMut>>

\* The call records the releases it made, in order.
caml_rocksdb_close(h) ==
    /\ Alive
    /\ UNCHANGED other_vars
    /\ db[h].st # "none"
    /\ IF IsOpen(h)
       THEN /\ store' = [store EXCEPT ![db[h].path].locked = FALSE]
            /\ db' = [db EXCEPT ![h] = ClosedDb]
       ELSE UNCHANGED <<store, db>>
    /\ last' = Call("close", h,
                    IF IsOpen(h)
                    THEN cf_handle_destroy_loop(db[h].cf_handles, 0) \o close_tail
                    ELSE <<>>,
                    FALSE, Ok, IsOpen(h))
    /\ UNCHANGED <<batch, iter, snap, lastMut>>

caml_rocksdb_is_open(h) ==
    /\ Alive
    /\ UNCHANGED other_vars
    /\ db[h].st # "none"
    /\ last' = Call("is_open", h, <<>>, FALSE, Ok, IsOpen(h))
    /\ UNCHANGED <<store, db, batch, iter, snap, lastMut>>

(***************************************************************************)
(* Basic operations                                                        *)
(***************************************************************************)
\* Variant of GetResult: an empty value reported as absent.
GetResultEmptyAbsent(h, cf_index, key) ==
    LET val == rocksdb_get(db[h].path, CfRoute(h, cf_index), key)
    IN IF val = None \/ val[1] = <<>> THEN None ELSE Some(val[1])

\* Variant of GetResult: the read options hold the live snapshot of the
\* database, and the read returns what the snapshot holds.
GetResultPinned(h, cf_index, key) ==
    IF \E s \in Snaps : snap[s].st = "live" /\ snap[s].db = h
    THEN LET s == CHOOSE s \in Snaps : snap[s].st = "live" /\ snap[s].db = h
             val == Lookup(snap[s].view[CfRoute(h, cf_index)], key)
         IN IF val = None THEN None ELSE Some(val[1])
    ELSE LET val == rocksdb_get(db[h].path, CfRoute(h, cf_index), key)
         IN IF val = None THEN None ELSE Some(val[1])

\* The result of get(h, cf_index, key) on an open handle without backend
\* error: None when the engine returns NULL, Some of the val_len bytes
\* otherwise.
GetResult(h, cf_index, key) ==
    LET val == rocksdb_get(db[h].path, CfRoute(h, cf_index), key)
    IN IF val = None THEN None ELSE Some(val[1])

\* Variant of ExistsResult: a stored value of length 0 counts as absent.
ExistsResultNonEmpty(h, cf_index, key) ==
    LET val == rocksdb_get(db[h].path, CfRoute(h, cf_index), key)
    IN val # None /\ val[1] # <<>>

\* The result of exists(h, cf_index, key) on an open handle without backend
\* error: whether the engine returned a value.
ExistsResult(h, cf_index, key) ==
    rocksdb_get(db[h].path, CfRoute(h, cf_index), key) # None

\* Variant of put: after an engine error the write is attempted again, and
\* the second attempt succeeds.
caml_rocksdb_put_Retry(h, cf_index, key, val, fault) ==
    /\ Alive
    /\ UNCHANGED other_vars
    /\ db[h].st # "none"
    /\ IF ~IsOpen(h)
       THEN /\ last' = Call("put", h, <<>>, FALSE, NotOpen, FALSE)
            /\ UNCHANGED <<store, lastMut>>
       ELSE /\ store' = rocksdb_put(store, db[h].path, CfRoute(h, cf_index), key, val)
            /\ last' = Call("put", h, <<>>, fault, Ok, TRUE)
            /\ lastMut' = [lastMut EXCEPT ![db[h].path] =
                  [kind |-> "put", h |-> h, ns |-> cf_index, key |-> key, val |-> val,
                   over |-> GetResult(h, cf_index, key) \notin {None, Some(val)}]]
    /\ UNCHANGED <<db, batch, iter, snap>>

caml_rocksdb_put(h, cf_index, key, val, fault) ==
    /\ Alive
    /\ UNCHANGED other_vars
    /\ db[h].st # "none"
    /\ IF ~IsOpen(h)
       THEN /\ last' = Call("put", h, <<>>, FALSE, NotOpen, FALSE)
            /\ UNCHANGED <<store, lastMut>>
       ELSE IF fault
       THEN /\ last' = Call("put", h, <<>>, TRUE, BackendFailed, FALSE)
            /\ UNCHANGED <<store, lastMut>>
       ELSE /\ store' = rocksdb_put(store, db[h].path, CfRoute(h, cf_index), key, val)
            /\ last' = Call("put", h, <<>>, FALSE, Ok, TRUE)
            /\ lastMut' = [lastMut EXCEPT ![db[h].path] =
                  [kind |-> "put", h |-> h, ns |-> cf_index, key |-> key, val |-> val,
                   over |-> GetResult(h, cf_index, key) \notin {None, Some(val)}]]
    /\ UNCHANGED <<db, batch, iter, snap>>

caml_rocksdb_get(h, cf_index, key, fault) ==
    /\ Alive
    /\ UNCHANGED other_vars
    /\ db[h].st # "none"
    /\ last' = IF ~IsOpen(h) THEN Call("get", h, <<>>, FALSE, NotOpen, FALSE)
               ELSE IF fault THEN Call("get", h, <<>>, TRUE, BackendFailed, FALSE)
               ELSE Call("get", h, <<cf_index, key>>, FALSE, Ok, GetResult(h, cf_index, key))
    /\ UNCHANGED <<store, db, batch, iter, snap, lastMut>>

\* Variant of delete: removing a key that is not stored is an error.
caml_rocksdb_delete_NotFound(h, cf_index, key, fault) ==
    /\ Alive
    /\ UNCHANGED other_vars
    /\ db[h].st # "none"
    /\ IF ~IsOpen(h)
       THEN /\ last' = Call("delete", h, <<>>, FALSE, NotOpen, FALSE)
            /\ UNCHANGED <<store, lastMut>>
       ELSE IF fault
       THEN /\ last' = Call("delete", h, <<>>, TRUE, BackendFailed, FALSE)
            /\ UNCHANGED <<store, lastMut>>
       ELSE IF GetResult(h, cf_index, key) = None
       THEN /\ last' = Call("delete", h, <<>>, FALSE, BackendFailed, FALSE)
            /\ UNCHANGED <<store, lastMut>>
       ELSE /\ store' = rocksdb_delete(store, db[h].path, CfRoute(h, cf_index), key)
            /\ last' = Call("delete", h, <<>>, FALSE, Ok, TRUE)
            /\ lastMut' = [lastMut EXCEPT ![db[h].path] =
                  [kind |-> "delete", h |-> h, ns |-> cf_index, key |-> key, val |-> <<>>,
                   over |-> TRUE]]
    /\ UNCHANGED <<db, batch, iter, snap>>

caml_rocksdb_delete(h, cf_index, key, fault) ==
    /\ Alive
    /\ UNCHANGED other_vars
    /\ db[h].st # "none"
    /\ IF ~IsOpen(h)
       THEN /\ last' = Call("delete", h, <<>>, FALSE, NotOpen, FALSE)
            /\ UNCHANGED <<store, lastMut>>
       ELSE IF fault
       THEN /\ last' = Call("delete", h, <<>>, TRUE, BackendFailed, FALSE)
            /\ UNCHANGED <<store, lastMut>>
       ELSE /\ store' = rocksdb_delete(store, db[h].path, CfRoute(h, cf_index), key)
            /\ last' = Call("delete", h, <<>>, FALSE, Ok, TRUE)
            /\ lastMut' = [lastMut EXCEPT ![db[h].path] =
                  [kind |-> "delete", h |-> h, ns |-> cf_index, key |-> key, val |-> <<>>,
                   over |-> GetResult(h, cf_index, key) # None]]
    /\ UNCHANGED <<db, batch, iter, snap>>

\* Variant of exists: a backend error is raised as get raises it.
caml_rocksdb_exists_Raises(h, cf_index, key, fault) ==
    /\ Alive
    /\ UNCHANGED other_vars
    /\ db[h].st # "none"
    /\ last' = IF ~IsOpen(h) THEN Call("exists", h, <<>>, FALSE, NotOpen, FALSE)
               ELSE IF fault THEN Call("exists", h, <<>>, TRUE, BackendFailed, FALSE)
               ELSE Call("exists", h, <<cf_index, key>>, FALSE, Ok, ExistsResult(h, cf_index, key))
    /\ UNCHANGED <<store, db, batch, iter, snap, lastMut>>

caml_rocksdb_exists(h, cf_index, key, fault) ==
    /\ Alive
    /\ UNCHANGED other_vars
    /\ db[h].st # "none"
    /\ last' = IF ~IsOpen(h) THEN Call("exists", h, <<>>, FALSE, NotOpen, FALSE)
               ELSE IF fault THEN Call("exists", h, <<>>, TRUE, Ok, FALSE)
               ELSE Call("exists", h, <<cf_index, key>>, FALSE, Ok, ExistsResult(h, cf_index, key))
    /\ UNCHANGED <<store, db, batch, iter, snap, lastMut>>

(***************************************************************************)
(* Batch operations                                                        *)
(***************************************************************************)
\* Batch_val(v) == NULL is st = "null"; wrapper->batch is never NULL while
\* the wrapper lives.
NoBatch == [st |-> "none", ops |-> <<>>, n_ops |-> 0]
NullBatch == [NoBatch EXCEPT !.st = "null"]
BatchValid(b) == batch[b].st = "live"

NewBatch == CHOOSE b \in Batches : batch[b].st = "none" /\ \A g \in Batches : batch[g].st = "none" => b <= g

BPut(key, val) == [t |-> "put", key |-> key, val |-> val]
BDel(key) == [t |-> "delete", key |-> key, val |-> <<>>]

\* rocksdb_write: the engine applies the records of the write batch to the
\* default family in the order they were added, as one atomic write.
RECURSIVE ApplyOps(_, _)
ApplyOps(cf, ops) ==
    IF ops = <<>> THEN cf
    ELSE LET op == Head(ops)
             nxt == IF op.t = "put" THEN Upsert(cf, op.key, op.val)
                    ELSE Remove(cf, op.key)
         IN ApplyOps(nxt, Tail(ops))

\* Variant of rocksdb_write: the records applied newest first.
RECURSIVE Reverse(_)
Reverse(q) == IF q = <<>> THEN <<>> ELSE Reverse(Tail(q)) \o <<Head(q)>>
rocksdb_write_Reversed(s, p, ops) == [s EXCEPT ![p].data[0] = ApplyOps(s[p].data[0], Reverse(ops))]

rocksdb_write(s, p, ops) == [s EXCEPT ![p].data[0] = ApplyOps(s[p].data[0], ops)]

caml_rocksdb_batch_create(oom) ==
    /\ Alive
    /\ UNCHANGED other_vars
    /\ \E b \in Batches : batch[b].st = "none"
    /\ IF oom
       THEN /\ last' = Call("batch_create", 0, <<>>, TRUE, AllocFailed, FALSE)
            /\ UNCHANGED batch
       ELSE /\ batch' = [batch EXCEPT ![NewBatch] = [st |-> "live", ops |-> <<>>, n_ops |-> 0]]
            /\ last' = Call("batch_create", NewBatch, <<>>, FALSE, Ok, TRUE)
    /\ UNCHANGED <<store, db, iter, snap, lastMut>>

\* Variant of batch put: the put is applied to the store at once.
caml_rocksdb_batch_put_WriteThrough(b, key, val) ==
    /\ Alive
    /\ UNCHANGED other_vars
    /\ batch[b].st # "none"
    /\ batch[b].n_ops < MaxBatchOps
    /\ IF ~BatchValid(b)
       THEN /\ last' = Call("batch_put", b, <<>>, FALSE, InvalidBatch, FALSE)
            /\ UNCHANGED <<batch, store>>
       ELSE /\ batch' = [batch EXCEPT ![b].ops = Append(@, BPut(key, val)),
                                      ![b].n_ops = @ + 1]
            /\ store' = [p \in Paths |-> [store[p] EXCEPT !.data[0] = Upsert(@, key, val)]]
            /\ last' = Call("batch_put", b, <<>>, FALSE, Ok, TRUE)
    /\ UNCHANGED <<db, iter, snap, lastMut>>

caml_rocksdb_batch_put(b, key, val) ==
    /\ Alive
    /\ UNCHANGED other_vars
    /\ batch[b].st # "none"
    /\ batch[b].n_ops < MaxBatchOps
    /\ IF ~BatchValid(b)
       THEN /\ last' = Call("batch_put", b, <<>>, FALSE, InvalidBatch, FALSE)
            /\ UNCHANGED batch
       ELSE /\ batch' = [batch EXCEPT ![b].ops = Append(@, BPut(key, val)),
                                      ![b].n_ops = @ + 1]
            /\ last' = Call("batch_put", b, <<>>, FALSE, Ok, TRUE)
    /\ UNCHANGED <<store, db, iter, snap, lastMut>>

caml_rocksdb_batch_delete(b, key) ==
    /\ Alive
    /\ UNCHANGED other_vars
    /\ batch[b].st # "none"
    /\ batch[b].n_ops < MaxBatchOps
    /\ IF ~BatchValid(b)
       THEN /\ last' = Call("batch_delete", b, <<>>, FALSE, InvalidBatch, FALSE)
            /\ UNCHANGED batch
       ELSE /\ batch' = [batch EXCEPT ![b].ops = Append(@, BDel(key)),
                                      ![b].n_ops = @ + 1]
            /\ last' = Call("batch_delete", b, <<>>, FALSE, Ok, TRUE)
    /\ UNCHANGED <<store, db, iter, snap, lastMut>>

\* Variant of batch clear: the counter of the wrapper is not reset.
caml_rocksdb_batch_clear_KeepCount(b) ==
    /\ Alive
    /\ UNCHANGED other_vars
    /\ batch[b].st # "none"
    /\ IF ~BatchValid(b)
       THEN /\ last' = Call("batch_clear", b, <<>>, FALSE, InvalidBatch, FALSE)
            /\ UNCHANGED batch
       ELSE /\ batch' = [batch EXCEPT ![b].ops = <<>>]
            /\ last' = Call("batch_clear", b, <<>>, FALSE, Ok, TRUE)
    /\ UNCHANGED <<store, db, iter, snap, lastMut>>

caml_rocksdb_batch_clear(b) ==
    /\ Alive
    /\ UNCHANGED other_vars
    /\ batch[b].st # "none"
    /\ IF ~BatchValid(b)
       THEN /\ last' = Call("batch_clear", b, <<>>, FALSE, InvalidBatch, FALSE)
            /\ UNCHANGED batch
       ELSE /\ batch' = [batch EXCEPT ![b].ops = <<>>, ![b].n_ops = 0]
            /\ last' = Call("batch_clear", b, <<>>, FALSE, Ok, TRUE)
    /\ UNCHANGED <<store, db, iter, snap, lastMut>>

caml_rocksdb_batch_count(b) ==
    /\ Alive
    /\ UNCHANGED other_vars
    /\ batch[b].st # "none"
    /\ last' = Call("batch_count", b, <<>>, FALSE, Ok,
                    IF batch[b].st = "null" THEN 0 ELSE batch[b].n_ops)
    /\ UNCHANGED <<store, db, batch, iter, snap, lastMut>>

\* Variant of batch write: a committed batch is left empty.
caml_rocksdb_batch_write_Consumes(h, b, fault) ==
    /\ Alive
    /\ UNCHANGED other_vars
    /\ db[h].st # "none"
    /\ batch[b].st # "none"
    /\ IF ~IsOpen(h)
       THEN /\ last' = Call("batch_write", h, <<b>>, FALSE, NotOpen, FALSE)
            /\ UNCHANGED <<store, lastMut, batch>>
       ELSE IF ~BatchValid(b)
       THEN /\ last' = Call("batch_write", h, <<b>>, FALSE, InvalidBatch, FALSE)
            /\ UNCHANGED <<store, lastMut, batch>>
       ELSE IF fault
       THEN /\ last' = Call("batch_write", h, <<b>>, TRUE, BackendFailed, FALSE)
            /\ UNCHANGED <<store, lastMut, batch>>
       ELSE /\ store' = rocksdb_write(store, db[h].path, batch[b].ops)
            /\ batch' = [batch EXCEPT ![b].ops = <<>>, ![b].n_ops = 0]
            /\ last' = Call("batch_write", h, <<b>>, FALSE, Ok, TRUE)
            /\ lastMut' = [lastMut EXCEPT ![db[h].path] = NoMut]
    /\ UNCHANGED <<db, iter, snap>>

\* Variant of batch write: the error of the engine write is dropped.
caml_rocksdb_batch_write_ErrDropped(h, b, fault) ==
    /\ Alive
    /\ UNCHANGED other_vars
    /\ db[h].st # "none"
    /\ batch[b].st # "none"
    /\ IF ~IsOpen(h)
       THEN /\ last' = Call("batch_write", h, <<b>>, FALSE, NotOpen, FALSE)
            /\ UNCHANGED <<store, lastMut>>
       ELSE IF ~BatchValid(b)
       THEN /\ last' = Call("batch_write", h, <<b>>, FALSE, InvalidBatch, FALSE)
            /\ UNCHANGED <<store, lastMut>>
       ELSE IF fault
       THEN /\ last' = Call("batch_write", h, <<b>>, TRUE, Ok, TRUE)
            /\ UNCHANGED <<store, lastMut>>
       ELSE /\ store' = rocksdb_write(store, db[h].path, batch[b].ops)
            /\ last' = Call("batch_write", h, <<b>>, FALSE, Ok, TRUE)
            /\ lastMut' = [lastMut EXCEPT ![db[h].path] = NoMut]
    /\ UNCHANGED <<db, batch, iter, snap>>

caml_rocksdb_batch_write(h, b, fault) ==
    /\ Alive
    /\ UNCHANGED other_vars
    /\ db[h].st # "none"
    /\ batch[b].st # "none"
    /\ IF ~IsOpen(h)
       THEN /\ last' = Call("batch_write", h, <<b>>, FALSE, NotOpen, FALSE)
            /\ UNCHANGED <<store, lastMut>>
       ELSE IF ~BatchValid(b)
       THEN /\ last' = Call("batch_write", h, <<b>>, FALSE, InvalidBatch, FALSE)
            /\ UNCHANGED <<store, lastMut>>
       ELSE IF fault
       THEN /\ last' = Call("batch_write", h, <<b>>, TRUE, BackendFailed, FALSE)
            /\ UNCHANGED <<store, lastMut>>
       ELSE /\ store' = rocksdb_write(store, db[h].path, batch[b].ops)
            /\ last' = Call("batch_write", h, <<b>>, FALSE, Ok, TRUE)
            /\ lastMut' = [lastMut EXCEPT ![db[h].path] = NoMut]
    /\ UNCHANGED <<db, batch, iter, snap>>

\* Variant of batch destroy: the engine batch is released and the wrapper
\* is left in place.
caml_rocksdb_batch_destroy_Keep(b) ==
    /\ Alive
    /\ UNCHANGED other_vars
    /\ batch[b].st # "none"
    /\ batch' = [batch EXCEPT ![b].ops = <<>>, ![b].n_ops = 0]
    /\ last' = Call("batch_destroy", b, <<>>, FALSE, Ok, BatchValid(b))
    /\ UNCHANGED <<store, db, iter, snap, lastMut>>

caml_rocksdb_batch_destroy(b) ==
    /\ Alive
    /\ UNCHANGED other_vars
    /\ batch[b].st # "none"
    /\ batch' = [batch EXCEPT ![b] = NullBatch]
    /\ last' = Call("batch_destroy", b, <<>>, FALSE, Ok, BatchValid(b))
    /\ UNCHANGED <<store, db, iter, snap, lastMut>>

(***************************************************************************)
(* Iterator operations                                                     *)
(***************************************************************************)
\* The engine orders keys bytewise, bytes compared as unsigned values.
RECURSIVE BytesLess(_, _)
BytesLess(a, b) ==
    IF a = <<>> THEN b # <<>>
    ELSE IF b = <<>> THEN FALSE
    ELSE IF Head(a) # Head(b) THEN Head(a) < Head(b)
    ELSE BytesLess(Tail(a), Tail(b))

Present(view) == {e[1] : e \in view}
Least(S) == IF S = {} THEN None
            ELSE Some(CHOOSE k \in S : \A j \in S : j = k \/ BytesLess(k, j))
Greatest(S) == IF S = {} THEN None
               ELSE Some(CHOOSE k \in S : \A j \in S : j = k \/ BytesLess(j, k))

\* Engine cursor movements over the view the iterator reads.
rocksdb_iter_seek_to_first(view) == Least(Present(view))
rocksdb_iter_seek_to_last(view) == Greatest(Present(view))
rocksdb_iter_seek(view, key) == Least({k \in Present(view) : ~BytesLess(k, key)})
rocksdb_iter_next(view, pos) == Least({k \in Present(view) : BytesLess(pos[1], k)})
rocksdb_iter_prev(view, pos) == Greatest({k \in Present(view) : BytesLess(k, pos[1])})

\* Iter_val(v) == NULL is st = "null".  `db` is the engine instance the
\* cursor belongs to, `view` the contents it reads, `pos` the cursor (None:
\* not valid).  `mode` is "fresh" until the first cursor movement; `mode`
\* = "walk" and `trail` record the keys met by the walk in
\* progress: seek_to_first followed by next only.
NoIter == [st |-> "none", db |-> 0, cf_index |-> 0, view |-> EmptyCF, pos |-> None,
           mode |-> "none", trail |-> <<>>]
NullIter == [NoIter EXCEPT !.st = "null"]
IterValid(i) == iter[i].st = "live"

NewIter == CHOOSE i \in Iters : iter[i].st = "none" /\ \A g \in Iters : iter[g].st = "none" => i <= g

\* The engine behind the iterator / snapshot has been closed: the engine
\* object the wrapper points to is released memory.
IterDangling(i) == iter[i].st = "live" /\ db[iter[i].db].st = "closed"

\* Cursor values an out-of-contract engine call may leave behind: not valid,
\* or on any entry of the view.
AnyPos(view) == {None} \cup {Some(k) : k \in Present(view)}

caml_rocksdb_iter_create(h, cf_index, oom) ==
    /\ Alive
    /\ UNCHANGED other_vars
    /\ db[h].st # "none"
    /\ \E i \in Iters : iter[i].st = "none"
    /\ IF ~IsOpen(h)
       THEN /\ last' = Call("iter_create", h, <<>>, FALSE, NotOpen, FALSE)
            /\ UNCHANGED iter
       ELSE IF oom
       THEN /\ last' = Call("iter_create", h, <<>>, TRUE, AllocFailed, FALSE)
            /\ UNCHANGED iter
       ELSE /\ iter' = [iter EXCEPT ![NewIter] =
                          [st |-> "live", db |-> h, cf_index |-> cf_index,
                           view |-> store[db[h].path].data[CfRoute(h, cf_index)],
                           pos |-> None, mode |-> "fresh", trail |-> <<>>]]
            /\ last' = Call("iter_create", h, <<NewIter>>, FALSE, Ok, TRUE)
    /\ UNCHANGED <<store, db, batch, snap, lastMut>>

\* Common shape of the five cursor movements: the wrapper check, then the
\* engine call.  `arg` holds the key argument of seek, `inContract` is the
\* engine's precondition, `target` the cursor after the call, `mode` and
\* `trail` the record of the walk.
IterMove(op, i, arg, inContract, target, mode, trail) ==
    /\ Alive
    /\ UNCHANGED other_vars
    /\ iter[i].st # "none"
    /\ IF ~IterValid(i)
       THEN /\ last' = Call(op, i, <<>>, FALSE, InvalidIter, FALSE)
            /\ UNCHANGED iter
       ELSE IF IterDangling(i) \/ ~inContract
       THEN \/ /\ last' = Call(op, i, <<IterDangling(i)>> \o arg, FALSE, Crashed, FALSE)
               /\ UNCHANGED iter
            \/ \E q \in AnyPos(iter[i].view) :
               /\ iter' = [iter EXCEPT ![i].pos = q, ![i].mode = "none", ![i].trail = <<>>]
               /\ last' = Call(op, i, <<IterDangling(i)>> \o arg, FALSE, Ok, TRUE)
       ELSE /\ iter' = [iter EXCEPT ![i].pos = target, ![i].mode = mode, ![i].trail = trail]
            /\ last' = Call(op, i, <<FALSE>> \o arg, FALSE, Ok, TRUE)
    /\ UNCHANGED <<store, db, batch, snap, lastMut>>

caml_rocksdb_iter_seek_to_first(i) ==
    LET target == rocksdb_iter_seek_to_first(iter[i].view)
    IN IterMove("iter_seek_to_first", i, <<>>, TRUE, target, "walk", target)

\* Variant of seek_to_last: the cursor is moved with
\* rocksdb_iter_seek_to_first.
caml_rocksdb_iter_seek_to_last_First(i) ==
    IterMove("iter_seek_to_last", i, <<>>, TRUE, rocksdb_iter_seek_to_first(iter[i].view),
             "none", <<>>)

caml_rocksdb_iter_seek_to_last(i) ==
    IterMove("iter_seek_to_last", i, <<>>, TRUE, rocksdb_iter_seek_to_last(iter[i].view),
             "none", <<>>)

\* Variant of seek: the cursor is moved with rocksdb_iter_seek_for_prev, to
\* the largest key that is not greater than `key`.
caml_rocksdb_iter_seek_ForPrev(i, key) ==
    IterMove("iter_seek", i, <<key>>, TRUE,
             Greatest({k \in Present(iter[i].view) : ~BytesLess(key, k)}), "none", <<>>)

caml_rocksdb_iter_seek(i, key) ==
    IterMove("iter_seek", i, <<key>>, TRUE, rocksdb_iter_seek(iter[i].view, key), "none", <<>>)

\* Variant of next: the cursor is moved with rocksdb_iter_prev.
caml_rocksdb_iter_next_Prev(i) ==
    LET target == IF iter[i].pos = None THEN None
                  ELSE rocksdb_iter_prev(iter[i].view, iter[i].pos)
    IN IterMove("iter_next", i, <<>>, iter[i].pos # None, target,
                iter[i].mode,
                IF iter[i].mode = "walk" THEN iter[i].trail \o target ELSE <<>>)

\* The engine requires a valid cursor for next and prev; the binding does
\* not check it.
caml_rocksdb_iter_next(i) ==
    LET target == IF iter[i].pos = None THEN None
                  ELSE rocksdb_iter_next(iter[i].view, iter[i].pos)
    IN IterMove("iter_next", i, <<>>, iter[i].pos # None, target,
                iter[i].mode,
                IF iter[i].mode = "walk" THEN iter[i].trail \o target ELSE <<>>)

\* Variant of prev: the cursor is moved with rocksdb_iter_next.
caml_rocksdb_iter_prev_Next(i) ==
    LET target == IF iter[i].pos = None THEN None
                  ELSE rocksdb_iter_next(iter[i].view, iter[i].pos)
    IN IterMove("iter_prev", i, <<>>, iter[i].pos # None, target, "none", <<>>)

caml_rocksdb_iter_prev(i) ==
    LET target == IF iter[i].pos = None THEN None
                  ELSE rocksdb_iter_prev(iter[i].view, iter[i].pos)
    IN IterMove("iter_prev", i, <<>>, iter[i].pos # None, target, "none", <<>>)

caml_rocksdb_iter_valid(i) ==
    /\ Alive
    /\ UNCHANGED other_vars
    /\ iter[i].st # "none"
    /\ IF ~IterValid(i)
       THEN last' = Call("iter_valid", i, <<>>, FALSE, Ok, FALSE)
       ELSE IF IterDangling(i)
       THEN \/ last' = Call("iter_valid", i, <<TRUE>>, FALSE, Crashed, FALSE)
            \/ \E r \in BOOLEAN : last' = Call("iter_valid", i, <<TRUE>>, FALSE, Ok, r)
       ELSE last' = Call("iter_valid", i, <<FALSE>>, FALSE, Ok, iter[i].pos # None)
    /\ UNCHANGED <<store, db, batch, iter, snap, lastMut>>

\* key and value copy what the engine returns for the cursor; the engine
\* requires a valid cursor, the binding does not check it.
IterRead(op, i, res) ==
    /\ Alive
    /\ UNCHANGED other_vars
    /\ iter[i].st # "none"
    /\ IF ~IterValid(i)
       THEN last' = Call(op, i, <<>>, FALSE, InvalidIter, FALSE)
       ELSE IF IterDangling(i) \/ iter[i].pos = None
       THEN \/ last' = Call(op, i, <<IterDangling(i)>>, FALSE, Crashed, FALSE)
            \/ \E r \in Keys \cup Values : last' = Call(op, i, <<IterDangling(i)>>, FALSE, Ok, r)
       ELSE last' = Call(op, i, <<FALSE>>, FALSE, Ok, res)
    /\ UNCHANGED <<store, db, batch, iter, snap, lastMut>>

caml_rocksdb_iter_key(i) ==
    IterRead("iter_key", i, IF iter[i].pos = None THEN <<>> ELSE iter[i].pos[1])

caml_rocksdb_iter_value(i) ==
    IterRead("iter_value", i,
             IF iter[i].pos = None THEN <<>> ELSE Lookup(iter[i].view, iter[i].pos[1])[1])

\* destroy hands the cursor to the engine for release, whatever the state
\* of the engine it came from.
\* Variant of iterator destroy: the wrapper is left in the value.
caml_rocksdb_iter_destroy_KeepWrapper(i) ==
    /\ Alive
    /\ UNCHANGED other_vars
    /\ iter[i].st # "none"
    /\ last' = Call("iter_destroy", i, <<IterDangling(i)>>, FALSE, Ok, IterValid(i))
    /\ UNCHANGED <<store, db, batch, iter, snap, lastMut>>

caml_rocksdb_iter_destroy(i) ==
    /\ Alive
    /\ UNCHANGED other_vars
    /\ iter[i].st # "none"
    /\ IF IterDangling(i)
       THEN \/ /\ last' = Call("iter_destroy", i, <<TRUE>>, FALSE, Crashed, FALSE)
               /\ UNCHANGED iter
            \/ /\ last' = Call("iter_destroy", i, <<TRUE>>, FALSE, Ok, TRUE)
               /\ iter' = [iter EXCEPT ![i] = NullIter]
       ELSE /\ last' = Call("iter_destroy", i, <<FALSE>>, FALSE, Ok, IterValid(i))
            /\ iter' = [iter EXCEPT ![i] = NullIter]
    /\ UNCHANGED <<store, db, batch, snap, lastMut>>

(***************************************************************************)
(* Snapshot operations                                                     *)
(***************************************************************************)
\* Snapshot_val(v) == NULL is st = "null".  `db` is db_wrapper, `view` the
\* contents of the store that the engine snapshot pins.
NoSnap == [st |-> "none", db |-> 0, view |-> [c \in CFIdx |-> EmptyCF]]
NullSnap == [NoSnap EXCEPT !.st = "null"]
SnapValid(s) == snap[s].st = "live"
SnapDangling(s) == snap[s].st = "live" /\ db[snap[s].db].st = "closed"

NewSnap == CHOOSE s \in Snaps : snap[s].st = "none" /\ \A g \in Snaps : snap[g].st = "none" => s <= g

caml_rocksdb_snapshot_create(h, oom) ==
    /\ Alive
    /\ UNCHANGED other_vars
    /\ db[h].st # "none"
    /\ \E s \in Snaps : snap[s].st = "none"
    /\ IF ~IsOpen(h)
       THEN /\ last' = Call("snapshot_create", h, <<>>, FALSE, NotOpen, FALSE)
            /\ UNCHANGED snap
       ELSE IF oom
       THEN /\ last' = Call("snapshot_create", h, <<>>, TRUE, AllocFailed, FALSE)
            /\ UNCHANGED snap
       ELSE /\ snap' = [snap EXCEPT ![NewSnap] =
                          [st |-> "live", db |-> h, view |-> store[db[h].path].data]]
            /\ last' = Call("snapshot_create", h, <<NewSnap>>, FALSE, Ok, TRUE)
    /\ UNCHANGED <<store, db, batch, iter, lastMut>>

\* release reads db_wrapper->db: after close of that database the wrapper
\* it points to has been freed.
caml_rocksdb_snapshot_release(s) ==
    /\ Alive
    /\ UNCHANGED other_vars
    /\ snap[s].st # "none"
    /\ IF ~SnapValid(s)
       THEN /\ last' = Call("snapshot_release", s, <<FALSE>>, FALSE, Ok, FALSE)
            /\ UNCHANGED snap
       ELSE IF SnapDangling(s)
       THEN \/ /\ last' = Call("snapshot_release", s, <<TRUE>>, FALSE, Crashed, FALSE)
               /\ UNCHANGED snap
            \/ /\ last' = Call("snapshot_release", s, <<TRUE>>, FALSE, Ok, TRUE)
               /\ snap' = [snap EXCEPT ![s] = NullSnap]
       ELSE /\ last' = Call("snapshot_release", s, <<FALSE>>, FALSE, Ok, TRUE)
            /\ snap' = [snap EXCEPT ![s] = NullSnap]
    /\ UNCHANGED <<store, db, batch, iter, lastMut>>

(***************************************************************************)
(* Statistics and utilities                                                *)
(***************************************************************************)
\* Property names are C strings: String_val(property) ends at the first
\* zero byte.
RECURSIVE CString(_)
CString(bytes) ==
    IF bytes = <<>> \/ Head(bytes) = 0 THEN <<>>
    ELSE <<Head(bytes)>> \o CString(Tail(bytes))

\* "rocksdb.stats" abbreviated to two bytes; any other name is unknown to
\* the engine.
P_known == <<114, 115>>
P_unknown == <<63>>
P_known_nul == <<114, 115, 0, 63>>
PropNames == {P_known, P_unknown, P_known_nul}

\* rocksdb_property_value: NULL for a name the engine does not know.
rocksdb_property_value(name) == IF name = P_known THEN Some(V_x) ELSE None

\* Variant of get_property: a closed handle yields "no value".
caml_rocksdb_get_property_NoCheck(h, property) ==
    /\ Alive
    /\ UNCHANGED other_vars
    /\ db[h].st # "none"
    /\ last' = IF ~IsOpen(h) THEN Call("get_property", h, <<property>>, FALSE, Ok, None)
               ELSE Call("get_property", h, <<property>>, FALSE, Ok,
                         LET val == rocksdb_property_value(CString(property))
                         IN IF val = None THEN None ELSE Some(CString(val[1])))
    /\ UNCHANGED <<store, db, batch, iter, snap, lastMut>>

\* Variant of get_property: a name the engine does not know is an error.
caml_rocksdb_get_property_Raises(h, property) ==
    /\ Alive
    /\ UNCHANGED other_vars
    /\ db[h].st # "none"
    /\ last' = IF ~IsOpen(h) THEN Call("get_property", h, <<>>, FALSE, NotOpen, FALSE)
               ELSE LET val == rocksdb_property_value(CString(property))
                    IN IF val = None
                       THEN Call("get_property", h, <<property>>, FALSE, BackendFailed, FALSE)
                       ELSE Call("get_property", h, <<property>>, FALSE, Ok,
                                 Some(CString(val[1])))
    /\ UNCHANGED <<store, db, batch, iter, snap, lastMut>>

caml_rocksdb_get_property(h, property) ==
    /\ Alive
    /\ UNCHANGED other_vars
    /\ db[h].st # "none"
    /\ last' = IF ~IsOpen(h) THEN Call("get_property", h, <<>>, FALSE, NotOpen, FALSE)
               ELSE Call("get_property", h, <<property>>, FALSE, Ok,
                         LET val == rocksdb_property_value(CString(property))
                         IN IF val = None THEN None ELSE Some(CString(val[1])))
    /\ UNCHANGED <<store, db, batch, iter, snap, lastMut>>

\* Variant of compact_range: the compacted family loses its entries.
caml_rocksdb_compact_range_Purge(h, cf_index) ==
    /\ Alive
    /\ UNCHANGED other_vars
    /\ db[h].st # "none"
    /\ IF ~IsOpen(h)
       THEN /\ last' = Call("compact_range", h, <<>>, FALSE, NotOpen, FALSE)
            /\ UNCHANGED store
       ELSE /\ last' = Call("compact_range", h, <<CfRoute(h, cf_index)>>, FALSE, Ok, TRUE)
            /\ store' = [store EXCEPT ![db[h].path].data[CfRoute(h, cf_index)] = EmptyCF]
    /\ UNCHANGED <<db, batch, iter, snap, lastMut>>

caml_rocksdb_compact_range(h, cf_index) ==
    /\ Alive
    /\ UNCHANGED other_vars
    /\ db[h].st # "none"
    /\ last' = IF ~IsOpen(h) THEN Call("compact_range", h, <<>>, FALSE, NotOpen, FALSE)
               ELSE Call("compact_range", h, <<CfRoute(h, cf_index)>>, FALSE, Ok, TRUE)
    /\ UNCHANGED <<store, db, batch, iter, snap, lastMut>>

\* rocksdb_flushoptions_set_wait(flush_options, 1): rocksdb_flush returns when
\* the flush has completed or failed.
flush_wait == 1

\* Variant of flush: the error of the engine flush is dropped.
caml_rocksdb_flush_ErrDropped(h, fault) ==
    /\ Alive
    /\ UNCHANGED other_vars
    /\ db[h].st # "none"
    /\ last' = IF ~IsOpen(h) THEN Call("flush", h, <<>>, FALSE, NotOpen, FALSE)
               ELSE IF fault THEN Call("flush", h, <<flush_wait>>, TRUE, Ok, TRUE)
               ELSE Call("flush", h, <<flush_wait>>, FALSE, Ok, TRUE)
    /\ UNCHANGED <<store, db, batch, iter, snap, lastMut>>

\* The call records the wait flag it passed to the engine.
caml_rocksdb_flush(h, fault) ==
    /\ Alive
    /\ UNCHANGED other_vars
    /\ db[h].st # "none"
    /\ last' = IF ~IsOpen(h) THEN Call("flush", h, <<>>, FALSE, NotOpen, FALSE)
               ELSE IF fault THEN Call("flush", h, <<flush_wait>>, TRUE, BackendFailed, FALSE)
               ELSE Call("flush", h, <<flush_wait>>, FALSE, Ok, TRUE)
    /\ UNCHANGED <<store, db, batch, iter, snap, lastMut>>

(***************************************************************************)
(* The build without HAVE_ROCKSDB (lines 886-1068): every function is a    *)
(* stub.  The arguments stand for whatever values the caller passes; the   *)
(* stubs read none of them.                                                *)
(***************************************************************************)
NotAvailable == "not available"

\* Variant of rocksdb_not_available: the call returns normally.
rocksdb_not_available_Silent(op, id, args) ==
    /\ last' = Call(op, id, args, FALSE, Ok, TRUE)
    /\ UNCHANGED <<rocksdb_vars, other_vars>>

\* rocksdb_not_available(): caml_failwith.
rocksdb_not_available(op, id, args) ==
    /\ last' = Call(op, id, args, FALSE, NotAvailable, FALSE)
    /\ UNCHANGED <<rocksdb_vars, other_vars>>

\* A stub that returns a constant.
StubReturn(op, id, args, res) ==
    /\ last' = Call(op, id, args, FALSE, Ok, res)
    /\ UNCHANGED <<rocksdb_vars, other_vars>>

caml_rocksdb_open_stub(p, create_if_missing) == rocksdb_not_available("open", 0, <<p, create_if_missing>>)
caml_rocksdb_close_stub(h) == rocksdb_not_available("close", h, <<>>)
caml_rocksdb_put_stub(h, cf_index, key, val) == rocksdb_not_available("put", h, <<cf_index, key, val>>)
caml_rocksdb_get_stub(h, cf_index, key) == rocksdb_not_available("get", h, <<cf_index, key>>)
caml_rocksdb_delete_stub(h, cf_index, key) == rocksdb_not_available("delete", h, <<cf_index, key>>)
caml_rocksdb_exists_stub(h, cf_index, key) == rocksdb_not_available("exists", h, <<cf_index, key>>)
caml_rocksdb_batch_create_stub(oom) == rocksdb_not_available("batch_create", 0, <<>>)
caml_rocksdb_batch_put_stub(b, key, val) == rocksdb_not_available("batch_put", b, <<key, val>>)
caml_rocksdb_batch_delete_stub(b, key) == rocksdb_not_available("batch_delete", b, <<key>>)
caml_rocksdb_batch_clear_stub(b) == rocksdb_not_available("batch_clear", b, <<>>)
caml_rocksdb_batch_write_stub(h, b) == rocksdb_not_available("batch_write", h, <<b>>)
caml_rocksdb_iter_create_stub(h, cf_index) == rocksdb_not_available("iter_create", h, <<cf_index>>)
caml_rocksdb_iter_seek_to_first_stub(i) == rocksdb_not_available("iter_seek_to_first", i, <<>>)
caml_rocksdb_iter_seek_to_last_stub(i) == rocksdb_not_available("iter_seek_to_last", i, <<>>)
caml_rocksdb_iter_seek_stub(i, key) == rocksdb_not_available("iter_seek", i, <<key>>)
caml_rocksdb_iter_next_stub(i) == rocksdb_not_available("iter_next", i, <<>>)
caml_rocksdb_iter_prev_stub(i) == rocksdb_not_available("iter_prev", i, <<>>)
caml_rocksdb_iter_key_stub(i) == rocksdb_not_available("iter_key", i, <<>>)
caml_rocksdb_iter_value_stub(i) == rocksdb_not_available("iter_value", i, <<>>)
caml_rocksdb_snapshot_create_stub(h) == rocksdb_not_available("snapshot_create", h, <<>>)
caml_rocksdb_compact_range_stub(h, cf_index) == rocksdb_not_available("compact_range", h, <<cf_index>>)
caml_rocksdb_flush_stub(h) == rocksdb_not_available("flush", h, <<>>)

\* The stubs that do not raise.  The unit results are written TRUE.
caml_rocksdb_is_open_stub(h) == StubReturn("is_open", h, <<>>, FALSE)
caml_rocksdb_batch_count_stub(b) == StubReturn("batch_count", b, <<>>, 0)
caml_rocksdb_batch_destroy_stub(b) == StubReturn("batch_destroy", b, <<>>, TRUE)
caml_rocksdb_iter_valid_stub(i) == StubReturn("iter_valid", i, <<>>, FALSE)
caml_rocksdb_iter_destroy_stub(i) == StubReturn("iter_destroy", i, <<>>, TRUE)
caml_rocksdb_snapshot_release_stub(sn) == StubReturn("snapshot_release", sn, <<>>, TRUE)
caml_rocksdb_get_property_stub(h, property) == StubReturn("get_property", h, <<property>>, None)
caml_rocksdb_backend_available_stub(u) == StubReturn("backend_available", 0, <<>>, FALSE)

(***************************************************************************)
(* Tensor binding (ggml_native.c): contexts, tensors, graphs               *)
(***************************************************************************)
InvalidCtx == "invalid context"
InvalidArg == "invalid argument"
InitFailed == "init failed"

\* Ctx_wrapper_val(v) == NULL is st = "null".  `ref_count` is the counter of
\* the wrapper, `frees` the number of times ggml_free was called on the
\* engine context of the wrapper.
NoCtx == [st |-> "none", ref_count |-> 0, frees |-> 0]
\* A tensor or graph wrapper and the context whose memory holds its engine
\* object; the wrappers of the binding are never cleared.
NoTensor == [st |-> "none", ctx |-> 0]
NoGraph == [st |-> "none", ctx |-> 0]

NoGgml == [ctx |-> [c \in Ctxs |-> NoCtx],
           tensor |-> [t \in Tensors |-> NoTensor],
           graph |-> [g \in Graphs |-> NoGraph]]

\* wrapper != NULL && wrapper->ctx != NULL
CtxValid(c) == ggml.ctx[c].st = "live"
NewCtx == CHOOSE c \in Ctxs : ggml.ctx[c].st = "none" /\ \A d \in Ctxs : ggml.ctx[d].st = "none" => c <= d
NewTensor == CHOOSE t \in Tensors : ggml.tensor[t].st = "none" /\ \A u \in Tensors : ggml.tensor[u].st = "none" => t <= u
NewGraph == CHOOSE g \in Graphs : ggml.graph[g].st = "none" /\ \A u \in Graphs : ggml.graph[u].st = "none" => g <= u

\* The engine object behind a tensor or graph wrapper lies in the memory of
\* a context that ggml_free has released.
TensorDangling(t) == ggml.tensor[t].st = "live" /\ ggml.ctx[ggml.tensor[t].ctx].frees > 0
GraphDangling(g) == ggml.graph[g].st = "live" /\ ggml.ctx[ggml.graph[g].ctx].frees > 0

\* `fault` is "ctx" when ggml_init returns NULL and "oom" when the wrapper
\* cannot be allocated.
caml_ggml_native_init(fault) ==
    /\ Alive
    /\ UNCHANGED <<rocksdb_vars, calls>>
    /\ \E c \in Ctxs : ggml.ctx[c].st = "none"
    /\ IF fault # "none"
       THEN /\ last' = Call("ggml_init", 0, <<fault>>, TRUE, InitFailed, FALSE)
            /\ UNCHANGED ggml
       ELSE /\ ggml' = [ggml EXCEPT !.ctx[NewCtx] = [st |-> "live", ref_count |-> 1, frees |-> 0]]
            /\ last' = Call("ggml_init", NewCtx, <<>>, FALSE, Ok, TRUE)

\* Variant of free: the context is released and the wrapper is left in the
\* value.
caml_ggml_native_free_KeepWrapper(c) ==
    /\ Alive
    /\ UNCHANGED <<rocksdb_vars, calls>>
    /\ ggml.ctx[c].st # "none"
    /\ ggml.ctx[c].frees < 2
    /\ ggml' = [ggml EXCEPT !.ctx[c].ref_count = @ - 1, !.ctx[c].frees = @ + 1]
    /\ last' = Call("ggml_free", c, <<>>, FALSE, Ok, CtxValid(c))

caml_ggml_native_free(c) ==
    /\ Alive
    /\ UNCHANGED <<rocksdb_vars, calls>>
    /\ ggml.ctx[c].st # "none"
    /\ IF CtxValid(c)
       THEN IF ggml.ctx[c].ref_count - 1 <= 0
            THEN ggml' = [ggml EXCEPT !.ctx[c] = [st |-> "null", ref_count |-> @.ref_count - 1,
                                                   frees |-> @.frees + 1]]
            ELSE ggml' = [ggml EXCEPT !.ctx[c].ref_count = @ - 1]
       ELSE UNCHANGED ggml
    /\ last' = Call("ggml_free", c, <<>>, FALSE, Ok, CtxValid(c))

\* used_mem and get_mem_size: the check of the wrapper, then a number read
\* from the context (1 stands for it).
caml_ggml_native_used_mem(c) ==
    /\ Alive
    /\ UNCHANGED <<rocksdb_vars, calls, ggml>>
    /\ ggml.ctx[c].st # "none"
    /\ last' = IF ~CtxValid(c) THEN Call("ggml_used_mem", c, <<>>, FALSE, InvalidCtx, FALSE)
               ELSE Call("ggml_used_mem", c, <<>>, FALSE, Ok, TRUE)

caml_ggml_native_get_mem_size(c) ==
    /\ Alive
    /\ UNCHANGED <<rocksdb_vars, calls, ggml>>
    /\ ggml.ctx[c].st # "none"
    /\ last' = IF ggml.ctx[c].st = "null"
               THEN Call("ggml_get_mem_size", c, <<>>, FALSE, InvalidCtx, FALSE)
               ELSE Call("ggml_get_mem_size", c, <<>>, FALSE, Ok, TRUE)

\* wrap_tensor on the tensor the engine returned.
NewTensorIn(op, c, args) ==
    /\ ggml' = [ggml EXCEPT !.tensor[NewTensor] = [st |-> "live", ctx |-> c]]
    /\ last' = Call(op, c, args, FALSE, Ok, TRUE)

caml_ggml_native_new_tensor_1d(c) ==
    /\ Alive
    /\ UNCHANGED <<rocksdb_vars, calls>>
    /\ ggml.ctx[c].st # "none"
    /\ \E t \in Tensors : ggml.tensor[t].st = "none"
    /\ IF ~CtxValid(c)
       THEN /\ last' = Call("ggml_new_tensor_1d", c, <<>>, FALSE, InvalidCtx, FALSE)
            /\ UNCHANGED ggml
       ELSE NewTensorIn("ggml_new_tensor_1d", c, <<NewTensor>>)

\* DEFINE_BINARY_OP / DEFINE_UNARY_OP: the check of the context and of the
\* tensor wrappers, then the engine call; a tensor of a released context is
\* released memory.
TensorOp(op, c, ts) ==
    /\ Alive
    /\ UNCHANGED <<rocksdb_vars, calls>>
    /\ ggml.ctx[c].st # "none"
    /\ \A t \in ts : ggml.tensor[t].st = "live"
    /\ \E t \in Tensors : ggml.tensor[t].st = "none"
    /\ IF ~CtxValid(c)
       THEN /\ last' = Call(op, c, <<>>, FALSE, InvalidArg, FALSE)
            /\ UNCHANGED ggml
       ELSE IF \E t \in ts : TensorDangling(t)
       THEN \/ /\ last' = Call(op, c, <<TRUE>>, FALSE, Crashed, FALSE)
               /\ UNCHANGED ggml
            \/ NewTensorIn(op, c, <<TRUE>>)
       ELSE NewTensorIn(op, c, <<FALSE>>)

caml_ggml_native_add(c, a, b) == TensorOp("ggml_add", c, {a, b})
caml_ggml_native_sqr(c, a) == TensorOp("ggml_sqr", c, {a})

caml_ggml_native_build_forward(c, t) ==
    /\ Alive
    /\ UNCHANGED <<rocksdb_vars, calls>>
    /\ ggml.ctx[c].st # "none"
    /\ ggml.tensor[t].st = "live"
    /\ \E g \in Graphs : ggml.graph[g].st = "none"
    /\ IF ~CtxValid(c)
       THEN /\ last' = Call("ggml_build_forward", c, <<>>, FALSE, InvalidArg, FALSE)
            /\ UNCHANGED ggml
       ELSE IF TensorDangling(t)
       THEN \/ /\ last' = Call("ggml_build_forward", c, <<TRUE>>, FALSE, Crashed, FALSE)
               /\ UNCHANGED ggml
            \/ /\ ggml' = [ggml EXCEPT !.graph[NewGraph] = [st |-> "live", ctx |-> c]]
               /\ last' = Call("ggml_build_forward", c, <<TRUE>>, FALSE, Ok, TRUE)
       ELSE /\ ggml' = [ggml EXCEPT !.graph[NewGraph] = [st |-> "live", ctx |-> c]]
            /\ last' = Call("ggml_build_forward", c, <<FALSE>>, FALSE, Ok, TRUE)

caml_ggml_native_graph_compute(c, g) ==
    /\ Alive
    /\ UNCHANGED <<rocksdb_vars, calls, ggml>>
    /\ ggml.ctx[c].st # "none"
    /\ ggml.graph[g].st = "live"
    /\ IF ~CtxValid(c)
       THEN last' = Call("ggml_graph_compute", c, <<>>, FALSE, InvalidArg, FALSE)
       ELSE IF GraphDangling(g)
       THEN \/ last' = Call("ggml_graph_compute", c, <<TRUE>>, FALSE, Crashed, FALSE)
            \/ last' = Call("ggml_graph_compute", c, <<TRUE>>, FALSE, Ok, TRUE)
       ELSE last' = Call("ggml_graph_compute", c, <<FALSE>>, FALSE, Ok, TRUE)

(***************************************************************************)
(* Point operations and batch write called by several threads              *)
(*                                                                         *)
(* Every one of these functions checks the wrapper and then makes one      *)
(* call of the engine; threads that run in parallel interleave at the      *)
(* engine calls.  A call is two steps of its thread: the check of the      *)
(* wrapper (<op>_call), and the engine call with the conversion of its     *)
(* result (<op>_engine).  The engine takes concurrent calls on one         *)
(* database and applies each of them, a write batch included, as one       *)
(* step.                                                                   *)
(***************************************************************************)
InFlight(t) == calls[t] # NoCall
AllIdle == \A t \in Threads : ~InFlight(t)

ThreadCall(op, h, cf_index, key, val, b) ==
    [pc |-> "engine", op |-> op, h |-> h, cf_index |-> cf_index, key |-> key,
     val |-> val, b |-> b]

\* `if (wrapper == NULL || !wrapper->is_open) caml_failwith(...)` of thread t.
wrapper_check(t, c, args) ==
    /\ Alive
    /\ ~InFlight(t)
    /\ db[c.h].st # "none"
    /\ IF ~IsOpen(c.h)
       THEN /\ last' = Call(c.op, c.h, args, FALSE, NotOpen, FALSE)
            /\ UNCHANGED calls
       ELSE /\ calls' = [calls EXCEPT ![t] = c]
            /\ UNCHANGED last
    /\ UNCHANGED <<rocksdb_vars, ggml>>

\* Thread t is at the engine call of `op`.
AtEngine(t, op) == InFlight(t) /\ calls[t].op = op /\ IsOpen(calls[t].h)

put_call(t, h, cf_index, key, val) ==
    wrapper_check(t, ThreadCall("put", h, cf_index, key, val, 0), <<>>)

put_engine(t, fault) ==
    /\ Alive
    /\ AtEngine(t, "put")
    /\ LET c == calls[t]
       IN IF fault
          THEN /\ last' = Call("put", c.h, <<>>, TRUE, BackendFailed, FALSE)
               /\ UNCHANGED <<store, lastMut>>
          ELSE /\ store' = rocksdb_put(store, db[c.h].path, CfRoute(c.h, c.cf_index),
                                       c.key, c.val)
               /\ last' = Call("put", c.h, <<>>, FALSE, Ok, TRUE)
               /\ lastMut' = [lastMut EXCEPT ![db[c.h].path] =
                     [kind |-> "put", h |-> c.h, ns |-> c.cf_index, key |-> c.key,
                      val |-> c.val,
                      over |-> GetResult(c.h, c.cf_index, c.key) \notin {None, Some(c.val)}]]
    /\ calls' = [calls EXCEPT ![t] = NoCall]
    /\ UNCHANGED <<db, batch, iter, snap, ggml>>

delete_call(t, h, cf_index, key) ==
    wrapper_check(t, ThreadCall("delete", h, cf_index, key, <<>>, 0), <<>>)

delete_engine(t, fault) ==
    /\ Alive
    /\ AtEngine(t, "delete")
    /\ LET c == calls[t]
       IN IF fault
          THEN /\ last' = Call("delete", c.h, <<>>, TRUE, BackendFailed, FALSE)
               /\ UNCHANGED <<store, lastMut>>
          ELSE /\ store' = rocksdb_delete(store, db[c.h].path, CfRoute(c.h, c.cf_index),
                                          c.key)
               /\ last' = Call("delete", c.h, <<>>, FALSE, Ok, TRUE)
               /\ lastMut' = [lastMut EXCEPT ![db[c.h].path] =
                     [kind |-> "delete", h |-> c.h, ns |-> c.cf_index, key |-> c.key,
                      val |-> <<>>,
                      over |-> GetResult(c.h, c.cf_index, c.key) # None]]
    /\ calls' = [calls EXCEPT ![t] = NoCall]
    /\ UNCHANGED <<db, batch, iter, snap, ggml>>

get_call(t, h, cf_index, key) ==
    wrapper_check(t, ThreadCall("get", h, cf_index, key, <<>>, 0), <<>>)

get_engine(t, fault) ==
    /\ Alive
    /\ AtEngine(t, "get")
    /\ LET c == calls[t]
       IN last' = IF fault THEN Call("get", c.h, <<>>, TRUE, BackendFailed, FALSE)
                  ELSE Call("get", c.h, <<c.cf_index, c.key>>, FALSE, Ok,
                            GetResult(c.h, c.cf_index, c.key))
    /\ calls' = [calls EXCEPT ![t] = NoCall]
    /\ UNCHANGED <<rocksdb_vars, ggml>>

exists_call(t, h, cf_index, key) ==
    wrapper_check(t, ThreadCall("exists", h, cf_index, key, <<>>, 0), <<>>)

exists_engine(t, fault) ==
    /\ Alive
    /\ AtEngine(t, "exists")
    /\ LET c == calls[t]
       IN last' = IF fault THEN Call("exists", c.h, <<>>, TRUE, Ok, FALSE)
                  ELSE Call("exists", c.h, <<c.cf_index, c.key>>, FALSE, Ok,
                            ExistsResult(c.h, c.cf_index, c.key))
    /\ calls' = [calls EXCEPT ![t] = NoCall]
    /\ UNCHANGED <<rocksdb_vars, ggml>>

\* Both checks of batch write come before its engine call.
batch_write_call(t, h, b) ==
    /\ batch[b].st # "none"
    /\ IF IsOpen(h) /\ ~BatchValid(b)
       THEN /\ Alive
            /\ ~InFlight(t)
            /\ last' = Call("batch_write", h, <<b>>, FALSE, InvalidBatch, FALSE)
            /\ UNCHANGED <<rocksdb_vars, calls, ggml>>
       ELSE wrapper_check(t, ThreadCall("batch_write", h, 0, <<>>, <<>>, b), <<b>>)

\* Variant of the engine call of batch write: the operations of the batch
\* reach the engine in two calls, and the step is the first of them.
batch_write_engine_Split(t, fault) ==
    /\ Alive
    /\ AtEngine(t, "batch_write")
    /\ LET c == calls[t]
       IN IF fault
          THEN /\ last' = Call("batch_write", c.h, <<c.b>>, TRUE, BackendFailed, FALSE)
               /\ UNCHANGED <<store, lastMut>>
          ELSE /\ store' = rocksdb_write(store, db[c.h].path,
                                         IF batch[c.b].ops = <<>> THEN <<>>
                                         ELSE <<Head(batch[c.b].ops)>>)
               /\ last' = Call("batch_write", c.h, <<c.b>>, FALSE, Ok, TRUE)
               /\ lastMut' = [lastMut EXCEPT ![db[c.h].path] = NoMut]
    /\ calls' = [calls EXCEPT ![t] = NoCall]
    /\ UNCHANGED <<db, batch, iter, snap, ggml>>

batch_write_engine(t, fault) ==
    /\ Alive
    /\ AtEngine(t, "batch_write")
    /\ LET c == calls[t]
       IN IF fault
          THEN /\ last' = Call("batch_write", c.h, <<c.b>>, TRUE, BackendFailed, FALSE)
               /\ UNCHANGED <<store, lastMut>>
          ELSE /\ store' = rocksdb_write(store, db[c.h].path, batch[c.b].ops)
               /\ last' = Call("batch_write", c.h, <<c.b>>, FALSE, Ok, TRUE)
               /\ lastMut' = [lastMut EXCEPT ![db[c.h].path] = NoMut]
    /\ calls' = [calls EXCEPT ![t] = NoCall]
    /\ UNCHANGED <<db, batch, iter, snap, ggml>>

(***************************************************************************)
(* Initial state and specifications                                        *)
(***************************************************************************)
Init ==
    /\ store = [p \in Paths |-> NoStore]
    /\ db = [h \in Handles |-> NullDb]
    /\ batch = [b \in Batches |-> NoBatch]
    /\ iter = [i \in Iters |-> NoIter]
    /\ snap = [s \in Snaps |-> NoSnap]
    /\ last = Call("init", 0, <<>>, FALSE, Ok, FALSE)
    /\ lastMut = [p \in Paths |-> NoMut]
    /\ calls = [t \in Threads |-> NoCall]
    /\ ggml = NoGgml

\* Namespace indices callers pass: below, inside and beyond the registry.
NsInputs == {-1, 0, 1, n_cf}

\* Environment faults of one open call: err1 fails
\* rocksdb_open_column_families, err2 fails rocksdb_open, `failed` are the
\* families whose rocksdb_create_column_family fails, oom fails malloc.
OpenFault(e1, e2, failed, oom) == [err1 |-> e1, err2 |-> e2, failed |-> failed, oom |-> oom]
NoFault == OpenFault(FALSE, FALSE, {}, FALSE)
OpenFaults ==
    { NoFault,
      OpenFault(FALSE, FALSE, {}, TRUE),
      OpenFault(TRUE, TRUE, {}, FALSE),
      OpenFault(TRUE, FALSE, {}, FALSE),
      OpenFault(TRUE, FALSE, {1}, FALSE),
      OpenFault(TRUE, FALSE, 1..(n_cf - 1), FALSE) }

KvPaths == {"p"}
KvKeys == {K_a}
KvValues == {V_empty, V_x}
KvNs == NsInputs

OpenKv ==
    \E p \in KvPaths, c \in BOOLEAN, f \in OpenFaults : caml_rocksdb_open(p, c, f)
CloseAny == \E h \in Handles : caml_rocksdb_close(h)
IsOpenAny == \E h \in Handles : caml_rocksdb_is_open(h)
PutKv == \E h \in Handles, n \in KvNs, k \in KvKeys, v \in KvValues, f \in BOOLEAN :
             (f => IsOpen(h)) /\ caml_rocksdb_put(h, n, k, v, f)
GetKv == \E h \in Handles, n \in KvNs, k \in KvKeys, f \in BOOLEAN :
             (f => IsOpen(h)) /\ caml_rocksdb_get(h, n, k, f)
DeleteKv == \E h \in Handles, n \in KvNs, k \in KvKeys, f \in BOOLEAN :
             (f => IsOpen(h)) /\ caml_rocksdb_delete(h, n, k, f)
ExistsKv == \E h \in Handles, n \in KvNs, k \in KvKeys, f \in BOOLEAN :
             (f => IsOpen(h)) /\ caml_rocksdb_exists(h, n, k, f)

(***************************************************************************)
(* Point operations: round trip and durability                             *)
(***************************************************************************)
\* The most recent call was a get of the key of the most recent successful
\* point mutation m, with the namespace index m was made with.
GetAfter(m) ==
    /\ last.op = "get"
    /\ last.err = Ok
    /\ IsOpen(last.id)
    /\ last.args = <<m.ns, m.key>>

\* C1: on an open database, put(N,K,V1); put(N,K,V); get(N,K) on the same
\* handle returns Some(V), for the empty V too, and after delete(N,K) the
\* get returns None.
RoundTrip ==
    \A p \in Paths :
        LET m == lastMut[p]
        IN (m.kind # "none" /\ GetAfter(m) /\ last.id = m.h)
               => last.res = IF m.kind = "put" THEN Some(m.val) ELSE None

\* C1 witness: a get returned the empty value that replaced another value.
RoundTripWitness ==
    \E p \in Paths :
        LET m == lastMut[p]
        IN /\ m.kind = "put" /\ m.val = V_empty /\ m.over
           /\ GetAfter(m) /\ last.id = m.h
           /\ last.res = Some(V_empty)

\* C2: after a successful put(N,K,V) through any handle of a path, a get(N,K)
\* through any later handle of that path returns Some(V).
Durability ==
    \A p \in Paths :
        LET m == lastMut[p]
        IN (m.kind = "put" /\ GetAfter(m) /\ db[last.id].path = p)
               => last.res = Some(m.val)

NextKv == OpenKv \/ CloseAny \/ IsOpenAny \/ PutKv \/ GetKv \/ DeleteKv \/ ExistsKv
SpecKv == Init /\ [][NextKv]_vars

(***************************************************************************)
(* Open, namespaces and the point operations                               *)
(***************************************************************************)
\* C11: an open that returns a handle returns an open handle of the path,
\* has created every one of the n_cf families in the store and reaches each
\* of them through its index; an open that fails returns no handle and
\* leaves the handle table as it was.
OpenComplete ==
    [][last'.op = "open" =>
           IF last'.err = Ok
           THEN \E h \in Handles :
                    /\ last'.id = h
                    /\ db[h].st = "none"
                    /\ IsOpen(h)'
                    /\ db'[h].path = last'.args[1]
                    /\ store'[last'.args[1]].cfs = CFIdx
                    /\ \A n \in CFIdx : CfRoute(h, n)' = n
           ELSE /\ last'.id = 0
                /\ db' = db]_vars

\* The step is a successful put or delete through handle h; m is its record.
IsMutation(h, m) ==
    /\ last'.op \in {"put", "delete"}
    /\ last'.id = h
    /\ last'.err = Ok
    /\ m = lastMut'[db[h].path]

\* C12: a successful put or delete on a namespace index N1 of the registry
\* leaves, for every other index N2 of the registry and every key, the
\* results of get and exists and the contents an iterator over N2 reads as
\* they were.
NamespaceIndependence ==
    [][\A h \in Handles :
           IsOpen(h) =>
               LET m == lastMut'[db[h].path]
               IN (IsMutation(h, m) /\ m.ns \in CFIdx) =>
                      \A n2 \in CFIdx \ {m.ns} :
                          /\ \A k \in Keys :
                                 /\ GetResult(h, n2, k)' = GetResult(h, n2, k)
                                 /\ ExistsResult(h, n2, k)' = ExistsResult(h, n2, k)
                          /\ store'[db[h].path].data[CfRoute(h, n2)] =
                                 store[db[h].path].data[CfRoute(h, n2)]]_vars

PointOps == {"put", "get", "delete", "exists"}

DeleteIdempotent ==
    [][\A h \in Handles :
           (IsOpen(h) /\ last'.id = h /\ last'.op = "delete") =>
               LET p == db[h].path
                   m == lastMut'[p]
               IN /\ ~last'.fault => last'.err = Ok
                  /\ last'.err = Ok =>
                         \A n \in NsInputs, k \in Keys :
                             (m.ns = n /\ m.key = k) =>
                                 /\ GetResult(h, n, k)' = None
                                 /\ ExistsResult(h, n, k)' = FALSE
                                 /\ GetResult(h, n, k) = None => store' = store
                                 /\ rocksdb_delete(store', p, CfRoute(h, n), k) = store'
                  /\ UNCHANGED <<db, batch, iter, snap>>]_vars

\* C14 witness: the delete of a key that namespace 1 does not hold succeeded
\* while the default namespace holds the key.
DeleteIdempotentWitness ==
    /\ last.op = "delete"
    /\ last.err = Ok
    /\ IsOpen(last.id)
    /\ LET m == lastMut[db[last.id].path]
       IN /\ m.kind = "delete" /\ ~m.over /\ m.ns = 1
          /\ CfRoute(last.id, 1) = 1
          /\ GetResult(last.id, 0, m.key) # None
          /\ GetResult(last.id, 1, m.key) = None

\* C15: on an open database without backend error exists returns true
\* exactly when get of the same index and key returns a value, the empty
\* value included, for indices inside and outside the registry; exists
\* changes nothing but the caller's result.
ExistsAgreesGet ==
    /\ [](\A h \in Handles :
            IsOpen(h) =>
                \A n \in NsInputs, k \in Keys :
                    ExistsResult(h, n, k) = (GetResult(h, n, k) # None))
    /\ [][\A h \in Handles :
            (IsOpen(h) /\ last'.id = h /\ last'.op = "exists") =>
                /\ ~last'.fault =>
                       /\ last'.err = Ok
                       /\ last'.res = (GetResult(h, last'.args[1], last'.args[2]) # None)
                /\ UNCHANGED <<store, db, batch, iter, snap, lastMut>>]_vars

\* C15 witness: exists returned true for a key whose stored value is empty,
\* asked with an index beyond the registry.
ExistsAgreesGetWitness ==
    /\ last.op = "exists"
    /\ ~last.fault
    /\ IsOpen(last.id)
    /\ last.args[1] = n_cf
    /\ last.res = TRUE
    /\ GetResult(last.id, n_cf, last.args[2]) = Some(V_empty)

\* C16: when the backend reports an error on an open database, exists
\* returns false without error and changes nothing, and get, put and delete
\* fail with the backend error.
ExistsDowngrades ==
    [][\A h \in Handles :
           (IsOpen(h) /\ last'.id = h /\ last'.op \in PointOps /\ last'.fault) =>
               /\ IF last'.op = "exists"
                  THEN last'.err = Ok /\ last'.res = FALSE
                  ELSE last'.err = BackendFailed
               /\ UNCHANGED <<store, db, batch, iter, snap, lastMut>>]_vars

\* C16 witness: exists returned false on a backend error while the key is
\* stored under every index a caller may have asked.
ExistsDowngradesWitness ==
    /\ last.op = "exists"
    /\ last.fault
    /\ last.err = Ok
    /\ last.res = FALSE
    /\ IsOpen(last.id)
    /\ \A n \in NsInputs : GetResult(last.id, n, K_a) # None

(***************************************************************************)
(* Batches: atomicity and order                                            *)
(***************************************************************************)
BatchPuts == {<<K_a, V_x>>, <<K_b, V_y>>}
BatchDels == {K_a}
BatchFaults == {NoFault}

OpenBatch == \E c \in BOOLEAN, f \in BatchFaults : caml_rocksdb_open("p", c, f)
BatchCreateAny == \E oom \in BOOLEAN : caml_rocksdb_batch_create(oom)
BatchPutAny == \E b \in Batches, e \in BatchPuts : caml_rocksdb_batch_put(b, e[1], e[2])
BatchDeleteAny == \E b \in Batches, k \in BatchDels : caml_rocksdb_batch_delete(b, k)
BatchClearAny == \E b \in Batches : caml_rocksdb_batch_clear(b)
BatchCountAny == \E b \in Batches : caml_rocksdb_batch_count(b)
BatchWriteAny == \E h \in Handles, b \in Batches, f \in BOOLEAN :
                     (f => IsOpen(h) /\ BatchValid(b)) /\ caml_rocksdb_batch_write(h, b, f)
BatchDestroyAny == \E b \in Batches : caml_rocksdb_batch_destroy(b)

NextBatch ==
    \/ OpenBatch \/ CloseAny \/ BatchCreateAny \/ BatchPutAny \/ BatchDeleteAny
    \/ BatchClearAny \/ BatchCountAny \/ BatchWriteAny \/ BatchDestroyAny
SpecBatch == Init /\ [][NextBatch]_vars

\* The step is a batch write through handle h of batch b.
IsBatchWrite(h, b) ==
    last'.op = "batch_write" /\ last'.id = h /\ last'.args = <<b>>

\* The positions of the operations of a batch that name key k.
OpsOn(ops, k) == {n \in 1..Len(ops) : ops[n].key = k}
Max(S) == CHOOSE n \in S : \A m \in S : m <= n
\* What a reader finds under k once the last operation on k has been applied.
FinalOf(ops, k) ==
    LET op == ops[Max(OpsOn(ops, k))]
    IN IF op.t = "put" THEN Some(op.val) ELSE None

\* C3: a batch write that fails (database not open, invalid batch, backend
\* error) leaves the contents of every store exactly as they were; a batch
\* write that succeeds leaves every key named in the batch with the outcome
\* of a batch operation on it, for every reader of the default namespace.
BatchAtomic ==
    [][\A h \in Handles, b \in Batches :
           IsBatchWrite(h, b) =>
               IF last'.err # Ok
               THEN store' = store
               ELSE \A k \in Keys :
                        OpsOn(batch[b].ops, k) # {} =>
                            /\ GetResult(h, 0, k)' = FinalOf(batch[b].ops, k)
                            /\ ExistsResult(h, 0, k)' = (FinalOf(batch[b].ops, k) # None)]_vars

\* C3 witness: the write of a batch holding put(K_a), put(K_b) has failed on
\* a backend error and neither key is in the store.
BatchAtomicWitness ==
    /\ last.op = "batch_write"
    /\ last.err = BackendFailed
    /\ batch[last.args[1]].ops = <<BPut(K_a, V_x), BPut(K_b, V_y)>>
    /\ GetResult(last.id, 0, K_a) = None
    /\ GetResult(last.id, 0, K_b) = None

\* One operation of a batch applied as the point operation on namespace 0.
PointApply(s, p, op) ==
    IF op.t = "put" THEN rocksdb_put(s, p, 0, op.key, op.val)
    ELSE rocksdb_delete(s, p, 0, op.key)

RECURSIVE OneByOne(_, _, _)
OneByOne(s, p, ops) ==
    IF ops = <<>> THEN s ELSE OneByOne(PointApply(s, p, Head(ops)), p, Tail(ops))

\* C4: a committed batch leaves the stores as the point put/delete
\* operations on the default namespace would, applied one by one in the order
\* they were added; for each key the last operation added decides.
BatchOrder ==
    [][\A h \in Handles, b \in Batches :
           (IsBatchWrite(h, b) /\ last'.err = Ok) =>
               /\ store' = OneByOne(store, db[h].path, batch[b].ops)
               /\ \A k \in Keys :
                      GetResult(h, 0, k)' =
                          IF OpsOn(batch[b].ops, k) = {} THEN GetResult(h, 0, k)
                          ELSE FinalOf(batch[b].ops, k)]_vars

\* C4 witness: a batch holding put(K) then delete(K) has been committed and
\* K is absent.
BatchOrderWitness ==
    /\ last.op = "batch_write"
    /\ last.err = Ok
    /\ batch[last.args[1]].ops = <<BPut(K_a, V_x), BDel(K_a)>>
    /\ GetResult(last.id, 0, K_a) = None

\* The step is call `op` on batch b.
IsBatchOp(op, b) == last'.op = op /\ last'.id = b

\* C23: a batch that batch_create has returned counts 0; every put and every
\* delete that succeeds raises the count by one; clear sets it to 0, empties
\* the batch and leaves it usable; no other call changes the count of a
\* usable batch; count returns the number of operations the batch holds; and a
\* write of a batch whose count is 0 changes no store.
BatchCount ==
    [][\A b \in Batches :
           /\ (IsBatchOp("batch_create", b) /\ last'.err = Ok) =>
                  /\ BatchValid(b)'
                  /\ batch'[b].n_ops = 0
                  /\ batch'[b].ops = <<>>
           /\ ((IsBatchOp("batch_put", b) \/ IsBatchOp("batch_delete", b)) /\ last'.err = Ok) =>
                  /\ batch'[b].n_ops = batch[b].n_ops + 1
                  /\ Len(batch'[b].ops) = Len(batch[b].ops) + 1
           /\ (IsBatchOp("batch_clear", b) /\ last'.err = Ok) =>
                  /\ BatchValid(b)'
                  /\ batch'[b].n_ops = 0
                  /\ batch'[b].ops = <<>>
           /\ (BatchValid(b) /\ BatchValid(b)'
                  /\ ~IsBatchOp("batch_put", b) /\ ~IsBatchOp("batch_delete", b)
                  /\ ~IsBatchOp("batch_clear", b)) =>
                  batch'[b].n_ops = batch[b].n_ops
           /\ (IsBatchOp("batch_count", b) /\ BatchValid(b)) =>
                  /\ last'.err = Ok
                  /\ last'.res = batch[b].n_ops
                  /\ last'.res = Len(batch[b].ops)
           /\ \A h \in Handles :
                  (IsBatchWrite(h, b) /\ last'.err = Ok /\ batch[b].n_ops = 0) =>
                      store' = store]_vars

\* C23 witness: clear has emptied a batch after a write of it had stored K_a,
\* and the batch is usable and counts 0.
BatchCountWitness ==
    /\ last.op = "batch_clear"
    /\ last.err = Ok
    /\ BatchValid(last.id)
    /\ batch[last.id].n_ops = 0
    /\ \E h \in Handles : IsOpen(h) /\ GetResult(h, 0, K_a) = Some(V_x)

\* C35: a batch write, successful or failed, leaves every batch as it was,
\* operations and count; a successful write applies the operations the batch
\* holds, each time it is called; and a usable batch that held operations
\* holds none after a step only if the step is clear on it (destroy ends the
\* batch).
BatchNotConsumed ==
    [][\A b \in Batches :
           /\ \A h \in Handles :
                  IsBatchWrite(h, b) =>
                      /\ batch' = batch
                      /\ last'.err = Ok => store' = OneByOne(store, db[h].path, batch[b].ops)
                      /\ last'.err # Ok => store' = store
           /\ (BatchValid(b) /\ batch[b].ops # <<>> /\ batch'[b].ops = <<>>) =>
                  (IsBatchOp("batch_clear", b) \/ IsBatchOp("batch_destroy", b))]_vars

\* C35 witness: a batch has been committed, K_a and K_b are stored, and the
\* batch still holds its two puts and counts 2.
BatchNotConsumedWitness ==
    /\ last.op = "batch_write"
    /\ last.err = Ok
    /\ batch[last.args[1]].ops = <<BPut(K_a, V_x), BPut(K_b, V_y)>>
    /\ batch[last.args[1]].n_ops = 2
    /\ GetResult(last.id, 0, K_a) = Some(V_x)
    /\ GetResult(last.id, 0, K_b) = Some(V_y)

\* C25: destroying a usable batch succeeds and leaves it destroyed; on a
\* destroyed batch put, delete and clear fail with the invalid-batch error
\* and change nothing; a write of it fails and changes no store, with the
\* invalid-batch error when the database handle is open.
DestroyedBatch ==
    [][\A b \in Batches :
           /\ (IsBatchOp("batch_destroy", b) /\ BatchValid(b)) =>
                  /\ last'.err = Ok
                  /\ batch'[b].st = "null"
                  /\ store' = store
           /\ batch[b].st = "null" =>
                  /\ (IsBatchOp("batch_put", b) \/ IsBatchOp("batch_delete", b)
                          \/ IsBatchOp("batch_clear", b)) =>
                         /\ last'.err = InvalidBatch
                         /\ UNCHANGED <<store, batch>>
                  /\ \A h \in Handles :
                         IsBatchWrite(h, b) =>
                             /\ last'.err \in {InvalidBatch, NotOpen}
                             /\ IsOpen(h) => last'.err = InvalidBatch
                             /\ UNCHANGED <<store, batch>>]_vars

\* C25 witness: a write of a destroyed batch through an open handle has
\* failed with the invalid-batch error.
DestroyedBatchWitness ==
    /\ last.op = "batch_write"
    /\ last.err = InvalidBatch
    /\ IsOpen(last.id)
    /\ batch[last.args[1]].st = "null"

(***************************************************************************)
(* Handle life cycle: open, close, calls on closed handles                 *)
(***************************************************************************)
LifeFaults == {NoFault, OpenFault(FALSE, FALSE, {}, TRUE), OpenFault(TRUE, TRUE, {}, FALSE)}
LifeNs == {0, 1}

\* Writes go through any handle and a batch is given at most one
\* operation; the other database operations are only asked of closed
\* handles here (what they do on open handles is explored by the other
\* specifications).
OpenLife == \E p \in Paths, c \in BOOLEAN, f \in LifeFaults : caml_rocksdb_open(p, c, f)
PutLife == \E h \in Handles : caml_rocksdb_put(h, 0, K_a, V_x, FALSE)
BatchCreateLife == caml_rocksdb_batch_create(FALSE)
BatchPutLife == \E b \in Batches : batch[b].n_ops = 0 /\ caml_rocksdb_batch_put(b, K_a, V_y)
BatchWriteLife == \E h \in Handles, b \in Batches : caml_rocksdb_batch_write(h, b, FALSE)
GetClosed == \E h \in Handles, n \in LifeNs : ~IsOpen(h) /\ caml_rocksdb_get(h, n, K_a, FALSE)
DeleteClosed == \E h \in Handles, n \in LifeNs : ~IsOpen(h) /\ caml_rocksdb_delete(h, n, K_a, FALSE)
ExistsClosed == \E h \in Handles, n \in LifeNs : ~IsOpen(h) /\ caml_rocksdb_exists(h, n, K_a, FALSE)
IterCreateClosed == \E h \in Handles : ~IsOpen(h) /\ caml_rocksdb_iter_create(h, 0, FALSE)
SnapshotCreateClosed == \E h \in Handles : ~IsOpen(h) /\ caml_rocksdb_snapshot_create(h, FALSE)
GetPropertyClosed == \E h \in Handles, n \in PropNames : ~IsOpen(h) /\ caml_rocksdb_get_property(h, n)
CompactRangeClosed == \E h \in Handles, n \in LifeNs : ~IsOpen(h) /\ caml_rocksdb_compact_range(h, n)
FlushClosed == \E h \in Handles : ~IsOpen(h) /\ caml_rocksdb_flush(h, FALSE)

NextLife ==
    \/ OpenLife \/ CloseAny \/ IsOpenAny
    \/ PutLife \/ BatchCreateLife \/ BatchPutLife \/ BatchWriteLife
    \/ GetClosed \/ DeleteClosed \/ ExistsClosed
    \/ IterCreateClosed \/ SnapshotCreateClosed
    \/ GetPropertyClosed \/ CompactRangeClosed \/ FlushClosed
SpecLife == Init /\ [][NextLife]_vars

\* The operations that take a database handle.
DbOps == {"put", "get", "delete", "exists", "batch_write", "iter_create",
          "snapshot_create", "get_property", "compact_range", "flush"}

\* C7: every database operation called on a closed handle fails with the
\* not-open error and changes neither the stores nor any handle.
NotOpenRejected ==
    [][\A h \in Handles :
           (db[h].st = "closed" /\ last'.op \in DbOps /\ last'.id = h) =>
               /\ last'.err = NotOpen
               /\ UNCHANGED <<store, db, batch, iter, snap>>]_vars

\* C7 witness: a batch write through a closed handle was rejected while
\* another handle is open and the batch holds an operation.
NotOpenRejectedWitness ==
    /\ last.op = "batch_write"
    /\ last.err = NotOpen
    /\ db[last.id].st = "closed"
    /\ batch[last.args[1]].n_ops = 1
    /\ \E g \in Handles : IsOpen(g)

\* C9: close returns without error and leaves the handle not open; on a
\* handle that is already closed it changes nothing; no other call changes
\* whether a handle is open, a successful open returns an open handle, and
\* is_open reports it.
CloseIdempotent ==
    [][\A h \in Handles :
           /\ (last'.op = "close" /\ last'.id = h) =>
                  /\ last'.err = Ok
                  /\ ~IsOpen(h)'
                  /\ ~IsOpen(h) => UNCHANGED <<store, db, batch, iter, snap, lastMut>>
           /\ (db[h].st # "none" /\ ~(last'.op = "close" /\ last'.id = h)) =>
                  IsOpen(h)' = IsOpen(h)
           /\ (last'.op = "open" /\ last'.id = h) =>
                  (last'.err = Ok /\ db[h].st = "none" /\ IsOpen(h)')
           /\ (last'.op = "is_open" /\ last'.id = h) =>
                  last'.res = IsOpen(h)]_vars

\* C9 witness: close was called on a handle that was already closed.
CloseIdempotentWitness ==
    /\ last.op = "close"
    /\ last.err = Ok
    /\ last.res = FALSE
    /\ db[last.id].st = "closed"
    /\ \E g \in Handles : IsOpen(g)

OpenOn(p) == {h \in Handles : IsOpen(h) /\ db[h].path = p}

\* C10: no two open handles share a path; an open of a path that a handle
\* holds open fails, returns no handle and changes nothing; an open of a path
\* no handle holds open succeeds when no fault is injected and the store
\* exists or may be created.
SingleWriter ==
    [][/\ \A p \in Paths : Cardinality(OpenOn(p)') <= 1
       /\ \A p \in Paths :
              (last'.op = "open" /\ last'.args[1] = p) =>
                  /\ OpenOn(p) # {} =>
                         /\ last'.err = OpenFailed
                         /\ last'.id = 0
                         /\ UNCHANGED <<store, db>>
                  /\ (OpenOn(p) = {} /\ ~last'.fault /\ (store[p].cfs # {} \/ last'.args[2])) =>
                         /\ last'.err = Ok
                         /\ OpenOn(p)' = {last'.id}]_vars

\* C10 witness: an open without injected fault failed because a handle holds
\* the path open, after an earlier handle of the path was closed.
SingleWriterWitness ==
    /\ last.op = "open"
    /\ last.err = OpenFailed
    /\ ~last.fault
    /\ OpenOn(last.args[1]) = {2}
    /\ db[1].st = "closed"

(***************************************************************************)
(* Iterators and snapshots whose database has been closed                  *)
(***************************************************************************)
OpenStale == caml_rocksdb_open("p", TRUE, NoFault)
PutStale == \E h \in Handles : IsOpen(h) /\ caml_rocksdb_put(h, 0, K_a, V_x, FALSE)
IterCreateStale == \E h \in Handles : IsOpen(h) /\ caml_rocksdb_iter_create(h, 0, FALSE)
SnapshotCreateStale == \E h \in Handles : IsOpen(h) /\ caml_rocksdb_snapshot_create(h, FALSE)
IterSeekToFirstAny == \E i \in Iters : caml_rocksdb_iter_seek_to_first(i)
IterSeekToLastAny == \E i \in Iters : caml_rocksdb_iter_seek_to_last(i)
IterSeekStale == \E i \in Iters : caml_rocksdb_iter_seek(i, K_a)
IterNextAny == \E i \in Iters : caml_rocksdb_iter_next(i)
IterPrevAny == \E i \in Iters : caml_rocksdb_iter_prev(i)
IterValidAny == \E i \in Iters : caml_rocksdb_iter_valid(i)
IterKeyAny == \E i \in Iters : caml_rocksdb_iter_key(i)
IterValueAny == \E i \in Iters : caml_rocksdb_iter_value(i)
IterDestroyAny == \E i \in Iters : caml_rocksdb_iter_destroy(i)
SnapshotReleaseAny == \E s \in Snaps : caml_rocksdb_snapshot_release(s)

NextStale ==
    \/ OpenStale \/ CloseAny \/ PutStale \/ IterCreateStale \/ SnapshotCreateStale
    \/ IterSeekToFirstAny \/ IterSeekToLastAny \/ IterSeekStale
    \/ IterNextAny \/ IterPrevAny \/ IterValidAny \/ IterKeyAny \/ IterValueAny
    \/ IterDestroyAny \/ SnapshotReleaseAny
SpecStale == Init /\ [][NextStale]_vars

\* The operations on an iterator or a snapshot that C8 names.
StaleOps == {"iter_seek_to_first", "iter_seek_to_last", "iter_seek", "iter_next",
             "iter_prev", "iter_key", "iter_value", "iter_destroy", "snapshot_release"}

\* C8: an operation on an iterator or a snapshot whose database had been
\* closed when it was called is reported to the caller as an error.
UseAfterCloseDetected ==
    (last.op \in StaleOps /\ last.args # <<>> /\ last.args[1] = TRUE) =>
        last.err \in {InvalidIter, NotOpen}

(***************************************************************************)
(* Snapshots                                                               *)
(***************************************************************************)
SnapValues == {V_x, V_y}

OpenSnap == \E c \in BOOLEAN : caml_rocksdb_open("p", c, NoFault)
PutSnap == \E h \in Handles, v \in SnapValues : IsOpen(h) /\ caml_rocksdb_put(h, 0, K_a, v, FALSE)
DeleteSnap == \E h \in Handles : IsOpen(h) /\ caml_rocksdb_delete(h, 0, K_a, FALSE)
GetSnap == \E h \in Handles : IsOpen(h) /\ caml_rocksdb_get(h, 0, K_a, FALSE)
SnapshotCreateAny == \E h \in Handles, oom \in BOOLEAN :
                         IsOpen(h) /\ caml_rocksdb_snapshot_create(h, oom)

NextSnap ==
    \/ OpenSnap \/ PutSnap \/ DeleteSnap \/ GetSnap
    \/ SnapshotCreateAny \/ SnapshotReleaseAny
SpecSnap == Init /\ [][NextSnap]_vars

\* The read the binding performs for the holder of snapshot s: every read
\* goes through the read options of the database of s, in which the binding
\* never installs a snapshot.
SnapshotRead(s, cf_index, key) == GetResult(snap[s].db, cf_index, key)

\* C5: a read through a live snapshot returns what the store held when the
\* snapshot was created, whatever has been committed since.
SnapshotIsolation ==
    \A s \in Snaps :
        (SnapValid(s) /\ IsOpen(snap[s].db)) =>
            \A k \in Keys : SnapshotRead(s, 0, k) = Lookup(snap[s].view[0], k)

(***************************************************************************)
(* Iteration order                                                         *)
(***************************************************************************)
IterKeys == {K_a, K_ab, K_hi}
\* The keys of the model in increasing bytewise order, written out.
KeyOrder == <<K_a, K_ab, K_b, K_hi>>

OpenIter == \E c \in BOOLEAN : caml_rocksdb_open("p", c, NoFault)
PutIter == \E h \in Handles, k \in IterKeys : IsOpen(h) /\ caml_rocksdb_put(h, 0, k, V_x, FALSE)
DeleteIter == \E h \in Handles, k \in IterKeys : IsOpen(h) /\ caml_rocksdb_delete(h, 0, k, FALSE)
IterCreateAny == \E h \in Handles, oom \in BOOLEAN :
                     IsOpen(h) /\ caml_rocksdb_iter_create(h, 0, oom)
\* next is called while the iterator is valid, as a walk does.
IterNextValid == \E i \in Iters : iter[i].pos # None /\ caml_rocksdb_iter_next(i)
IterKeyValid == \E i \in Iters : iter[i].pos # None /\ caml_rocksdb_iter_key(i)

NextIter ==
    \/ OpenIter \/ PutIter \/ DeleteIter \/ IterCreateAny
    \/ IterSeekToFirstAny \/ IterNextValid \/ IterValidAny \/ IterKeyValid
    \/ IterDestroyAny
SpecIter == Init /\ [][NextIter]_vars

InOrder(S) == LET In(k) == k \in S IN SelectSeq(KeyOrder, In)

CursorPuts == {<<0, K_a, V_x>>, <<0, K_ab, V_x>>, <<0, K_hi, V_x>>}
CursorNs == {0, 1}
SeekKeys == Keys

OpenCursor == caml_rocksdb_open("p", TRUE, NoFault)
PutCursor == \E h \in Handles, e \in CursorPuts :
                 IsOpen(h) /\ caml_rocksdb_put(h, e[1], e[2], e[3], FALSE)
IterCreateCursor == \E h \in Handles, n \in CursorNs :
                        IsOpen(h) /\ caml_rocksdb_iter_create(h, n, FALSE)
IterSeekCursor == \E i \in Iters, k \in SeekKeys : caml_rocksdb_iter_seek(i, k)

NextCursor ==
    \/ OpenCursor \/ PutCursor \/ IterCreateCursor
    \/ IterSeekToFirstAny \/ IterSeekToLastAny \/ IterSeekCursor
    \/ IterNextAny \/ IterPrevAny \/ IterValidAny \/ IterKeyAny \/ IterValueAny
    \/ IterDestroyAny
SpecCursor == Init /\ [][NextCursor]_vars

\* C17: key and value called on a live iterator of an open database whose
\* cursor is not valid fail with an error.
AccessorsGuarded ==
    (/\ last.op \in {"iter_key", "iter_value"}
     /\ IterValid(last.id)
     /\ ~IterDangling(last.id)
     /\ iter[last.id].pos = None)
        => last.err \notin {Ok, Crashed}

\* The place of a key in the written-out key order.
Idx(k) == CHOOSE n \in 1..Len(KeyOrder) : KeyOrder[n] = k
\* The keys iterator i reads (those its namespace held when it was created),
\* in increasing order.
KeysOf(i) == InOrder(Present(iter[i].view))
\* The step is the cursor movement op of the live iterator i of an open
\* database.
IsMove(op, i) ==
    /\ last'.op = op
    /\ last'.id = i
    /\ IterValid(i)
    /\ ~IterDangling(i)

Stepping ==
    [][\A i \in Iters :
           /\ \A n \in 1..Len(KeysOf(i)) :
                  iter[i].pos = Some(KeysOf(i)[n]) =>
                      /\ IsMove("iter_next", i) =>
                             /\ last'.err = Ok
                             /\ iter'[i].pos = IF n < Len(KeysOf(i))
                                               THEN Some(KeysOf(i)[n + 1]) ELSE None
                      /\ IsMove("iter_prev", i) =>
                             /\ last'.err = Ok
                             /\ iter'[i].pos = IF n > 1 THEN Some(KeysOf(i)[n - 1]) ELSE None
           /\ iter[i].pos = None =>
                  /\ (IsMove("iter_seek_to_first", i) \/ IsMove("iter_seek_to_last", i)) =>
                         (Present(iter[i].view) # {} => iter'[i].pos # None)
                  /\ \A key \in Keys :
                         (IsMove("iter_seek", i) /\ last'.args[2] = key) =>
                             ((\E k \in Present(iter[i].view) : Idx(k) >= Idx(key))
                                  => iter'[i].pos # None)
           /\ IsMove("iter_valid", i) =>
                  /\ last'.res = (iter[i].pos # None)
                  /\ iter' = iter]_vars

\* C20 witness: prev has moved the cursor from the largest of three keys to
\* the middle one.
SteppingWitness ==
    /\ last.op = "iter_prev"
    /\ last.err = Ok
    /\ KeysOf(last.id) = <<K_a, K_ab, K_hi>>
    /\ iter[last.id].pos = Some(K_ab)

\* The cursor movements that position an iterator by themselves.
SeekOps == {"iter_seek_to_first", "iter_seek_to_last", "iter_seek"}

\* C21: an iterator that iter_create has just returned is not valid, whatever
\* its namespace holds, and as long as none of seek_to_first, seek_to_last
\* and seek has been called on it no call makes it valid, and valid returns
\* false.
Unpositioned ==
    [][\A i \in Iters :
           /\ (last'.op = "iter_create" /\ last'.err = Ok /\ last'.args = <<i>>) =>
                  /\ iter'[i].st = "live"
                  /\ iter'[i].pos = None
           /\ (iter[i].mode = "fresh" /\ ~(last'.op \in SeekOps /\ last'.id = i)) =>
                  /\ iter'[i].st = "live" => iter'[i].pos = None
                  /\ (last'.op = "iter_valid" /\ last'.id = i) => last'.res = FALSE]_vars

\* The contents of the namespace of iterator i as a get reads them now.
NamespaceNow(i) ==
    store[db[iter[i].db].path].data[CfRoute(iter[i].db, iter[i].cf_index)]

\* C22: every seek of an iterator leaves the cursor where the contents of its
\* namespace at the time of the call put it, so that a put or delete
\* committed after the iterator was created is observed.
ReadCommitted ==
    [][\A i \in Iters :
           /\ IsMove("iter_seek_to_first", i) =>
                  iter'[i].pos = rocksdb_iter_seek_to_first(NamespaceNow(i))
           /\ IsMove("iter_seek_to_last", i) =>
                  iter'[i].pos = rocksdb_iter_seek_to_last(NamespaceNow(i))
           /\ \A key \in Keys :
                  (IsMove("iter_seek", i) /\ last'.args[2] = key) =>
                      iter'[i].pos = rocksdb_iter_seek(NamespaceNow(i), key)]_vars

(***************************************************************************)
(* Batches under construction next to readers                              *)
(***************************************************************************)
\* A batch is given put(K_a), then put(K_b), or a delete of K_a.
GetPending == \E h \in Handles : IsOpen(h) /\ caml_rocksdb_get(h, 0, K_a, FALSE)
BatchPutPending == \E b \in Batches :
                       \/ batch[b].n_ops = 0 /\ caml_rocksdb_batch_put(b, K_a, V_x)
                       \/ batch[b].n_ops = 1 /\ caml_rocksdb_batch_put(b, K_b, V_y)
BatchDeletePending == \E b \in Batches :
                          batch[b].n_ops = 0 /\ caml_rocksdb_batch_delete(b, K_a)
BatchWritePending == \E h \in Handles, b \in Batches :
                         IsOpen(h) /\ BatchValid(b) /\ caml_rocksdb_batch_write(h, b, FALSE)

NextPending ==
    \/ OpenStale \/ PutStale \/ GetPending \/ IterCreateStale \/ IterSeekToFirstAny
    \/ BatchCreateLife \/ BatchPutPending \/ BatchDeletePending \/ BatchClearAny
    \/ BatchWritePending \/ BatchDestroyAny
SpecPending == Init /\ [][NextPending]_vars

\* The step is one of the calls that build or release a batch.
IsBatchEdit ==
    last'.op \in {"batch_create", "batch_put", "batch_delete", "batch_clear", "batch_destroy"}

\* C24: batch create, put, delete, clear and destroy change no store, no
\* handle and no iterator: get and exists return through every handle, for
\* every namespace and key, what they returned before the call.
BatchInvisible ==
    [][IsBatchEdit =>
           /\ store' = store
           /\ db' = db
           /\ iter' = iter
           /\ \A h \in Handles, n \in NsInputs, k \in Keys :
                  IsOpen(h) =>
                      /\ GetResult(h, n, k)' = GetResult(h, n, k)
                      /\ ExistsResult(h, n, k)' = ExistsResult(h, n, k)]_vars

\* C24 witness: a batch holds put(K_a), put(K_b) after its second put, a
\* reader of the open database finds neither key and an iterator that has
\* been moved stands on no entry.
BatchInvisibleWitness ==
    /\ last.op = "batch_put"
    /\ last.err = Ok
    /\ batch[last.id].ops = <<BPut(K_a, V_x), BPut(K_b, V_y)>>
    /\ \E i \in Iters : IterValid(i) /\ iter[i].mode # "fresh" /\ iter[i].pos = None
    /\ \E h \in Handles :
           /\ IsOpen(h)
           /\ GetResult(h, 0, K_a) = None /\ ~ExistsResult(h, 0, K_a)
           /\ GetResult(h, 0, K_b) = None /\ ~ExistsResult(h, 0, K_b)

(***************************************************************************)
(* Calls on destroyed batches and iterators and on released snapshots      *)
(***************************************************************************)
NextRelease ==
    \/ OpenStale \/ CloseAny
    \/ BatchCreateLife \/ BatchPutLife \/ BatchClearAny \/ BatchCountAny \/ BatchDestroyAny
    \/ IterCreateStale \/ IterSeekToFirstAny \/ IterValidAny \/ IterDestroyAny
    \/ SnapshotCreateStale \/ SnapshotReleaseAny
SpecRelease == Init /\ [][NextRelease]_vars

\* C26: destroying a batch that has been destroyed, destroying an iterator
\* that has been destroyed and releasing a snapshot that has been released
\* fail with an error.
DoubleDestroyRejected ==
    [][/\ \A b \in Batches :
              (batch[b].st = "null" /\ IsBatchOp("batch_destroy", b)) => last'.err # Ok
       /\ \A i \in Iters :
              (iter[i].st = "null" /\ last'.op = "iter_destroy" /\ last'.id = i) =>
                  last'.err # Ok
       /\ \A sn \in Snaps :
              (snap[sn].st = "null" /\ last'.op = "snapshot_release" /\ last'.id = sn) =>
                  last'.err # Ok]_vars

\* The calls on a batch and on an iterator other than destroy.
BatchUses == {"batch_put", "batch_delete", "batch_clear", "batch_count"}
IterUses == {"iter_seek_to_first", "iter_seek_to_last", "iter_seek", "iter_next",
             "iter_prev", "iter_valid", "iter_key", "iter_value"}

\* C27: every call on a destroyed batch or on a destroyed iterator, count and
\* valid included, and every database operation other than exists and
\* get_property on a closed handle, fails with an error.
NoHiddenDefaults ==
    [][/\ \A b \in Batches :
              (batch[b].st = "null" /\ last'.op \in BatchUses /\ last'.id = b) =>
                  last'.err # Ok
       /\ \A i \in Iters :
              (iter[i].st = "null" /\ last'.op \in IterUses /\ last'.id = i) =>
                  last'.err # Ok
       /\ \A h \in Handles :
              (db[h].st = "closed" /\ last'.op \in DbOps \ {"exists", "get_property"}
                  /\ last'.id = h) =>
                  last'.err # Ok]_vars

(***************************************************************************)
(* Maintenance: flush, compact_range, get_property                         *)
(***************************************************************************)
\* Opens with every namespace, and with namespace 1 routed to the default
\* family.
MaintFaults == {NoFault, OpenFault(TRUE, FALSE, {1}, FALSE)}
MaintNs == {0, 1}

OpenMaint == \E f \in MaintFaults : caml_rocksdb_open("p", TRUE, f)
PutMaint == \E h \in Handles, n \in MaintNs :
                IsOpen(h) /\ caml_rocksdb_put(h, n, K_a, V_x, FALSE)
DeleteMaint == \E h \in Handles : IsOpen(h) /\ caml_rocksdb_delete(h, 1, K_a, FALSE)
BatchWriteMaint == \E h \in Handles, b \in Batches :
                       IsOpen(h) /\ BatchValid(b) /\ caml_rocksdb_batch_write(h, b, FALSE)
IterCreateMaint == \E h \in Handles : IsOpen(h) /\ caml_rocksdb_iter_create(h, 1, FALSE)
FlushAny == \E h \in Handles, f \in BOOLEAN : IsOpen(h) /\ caml_rocksdb_flush(h, f)
CompactRangeAny == \E h \in Handles, n \in NsInputs :
                       IsOpen(h) /\ caml_rocksdb_compact_range(h, n)
GetPropertyAny == \E h \in Handles, name \in PropNames :
                      IsOpen(h) /\ caml_rocksdb_get_property(h, name)

NextMaint ==
    \/ OpenMaint \/ PutMaint \/ DeleteMaint
    \/ BatchCreateLife \/ BatchPutLife \/ BatchWriteMaint
    \/ IterCreateMaint \/ IterSeekToFirstAny
    \/ FlushAny \/ CompactRangeAny \/ GetPropertyAny
SpecMaint == Init /\ [][NextMaint]_vars

\* The step is call `op` through the open handle h.
IsOpenCall(op, h) == IsOpen(h) /\ last'.op = op /\ last'.id = h

\* Every get and exists through every open handle returns after the step what
\* it returned before, and every iterator is as it was.
ReadsUnchanged ==
    /\ store' = store
    /\ iter' = iter
    /\ \A h \in Handles, n \in NsInputs, k \in Keys :
           IsOpen(h) =>
               /\ IsOpen(h)'
               /\ GetResult(h, n, k)' = GetResult(h, n, k)
               /\ ExistsResult(h, n, k)' = ExistsResult(h, n, k)

\* C28: flush on an open database asks the engine to wait for completion; it
\* fails with the backend error when the engine rejects the flush and
\* succeeds otherwise; in both cases every read returns what it returned
\* before.
FlushReports ==
    [][\A h \in Handles :
           IsOpenCall("flush", h) =>
               /\ last'.args = <<1>>
               /\ last'.fault => (last'.err = BackendFailed /\ last'.res = FALSE)
               /\ ~last'.fault => last'.err = Ok
               /\ ReadsUnchanged]_vars

\* C28 witness: a flush the engine rejected has failed while K_a is stored.
FlushReportsWitness ==
    /\ last.op = "flush"
    /\ last.fault
    /\ last.err = BackendFailed
    /\ IsOpen(last.id)
    /\ GetResult(last.id, 0, K_a) = Some(V_x)

\* C29: compact_range on an open database succeeds for every namespace index
\* and every read returns what it returned before, whatever puts, deletes
\* and batch writes came before it.
CompactNoOp ==
    [][\A h \in Handles :
           IsOpenCall("compact_range", h) =>
               /\ last'.err = Ok
               /\ ReadsUnchanged]_vars

\* C29 witness: compact_range has run on namespace 1 while K_a is stored in
\* namespace 1 and absent from namespace 0, and an iterator stands on an entry.
CompactNoOpWitness ==
    /\ last.op = "compact_range"
    /\ last.args = <<1>>
    /\ IsOpen(last.id)
    /\ GetResult(last.id, 1, K_a) = Some(V_x)
    /\ GetResult(last.id, 0, K_a) = None
    /\ \E i \in Iters : IterValid(i) /\ iter[i].pos # None

\* The names the engine has a statistic for.
KnownProps == {P_known}

\* C30: get_property on an open database never fails; it returns no value
\* when the name, read up to its first zero byte as the engine reads it, is
\* not a name the engine knows, and a value when it is; every read returns
\* what it returned before.
PropertyAbsence ==
    [][\A h \in Handles, name \in PropNames :
           (IsOpenCall("get_property", h) /\ last'.args = <<name>>) =>
               /\ last'.err = Ok
               /\ CString(name) \notin KnownProps => last'.res = None
               /\ CString(name) \in KnownProps => last'.res # None
               /\ ReadsUnchanged]_vars

\* C30 witness: get_property has returned no value for an unknown name while
\* K_a is stored.
PropertyAbsenceWitness ==
    /\ last.op = "get_property"
    /\ last.args = <<P_unknown>>
    /\ last.err = Ok
    /\ last.res = None
    /\ IsOpen(last.id)
    /\ GetResult(last.id, 0, K_a) = Some(V_x)

(***************************************************************************)
(* Tensor contexts: creation, release, calls on a released context         *)
(***************************************************************************)
GgmlInitAny == \E f \in {"none", "ctx", "oom"} : caml_ggml_native_init(f)
GgmlFreeAny == \E c \in Ctxs : caml_ggml_native_free(c)
GgmlUsedMemAny == \E c \in Ctxs : caml_ggml_native_used_mem(c)
GgmlGetMemSizeAny == \E c \in Ctxs : caml_ggml_native_get_mem_size(c)
GgmlNewTensorAny == \E c \in Ctxs : caml_ggml_native_new_tensor_1d(c)
GgmlAddAny == \E c \in Ctxs, a, b \in Tensors : caml_ggml_native_add(c, a, b)
GgmlSqrAny == \E c \in Ctxs, a \in Tensors : caml_ggml_native_sqr(c, a)
GgmlBuildForwardAny == \E c \in Ctxs, t \in Tensors : caml_ggml_native_build_forward(c, t)
GgmlGraphComputeAny == \E c \in Ctxs, g \in Graphs : caml_ggml_native_graph_compute(c, g)

NextGgml ==
    \/ GgmlInitAny \/ GgmlFreeAny \/ GgmlUsedMemAny \/ GgmlGetMemSizeAny
    \/ GgmlNewTensorAny \/ GgmlAddAny \/ GgmlSqrAny
    \/ GgmlBuildForwardAny \/ GgmlGraphComputeAny
SpecGgml == Init /\ [][NextGgml]_vars

\* The calls that take a context and check it.
CtxOps == {"ggml_new_tensor_1d", "ggml_add", "ggml_sqr", "ggml_used_mem",
           "ggml_get_mem_size", "ggml_build_forward", "ggml_graph_compute"}

\* C39: a context that init has returned has reference count 1; the first
\* free of it releases the engine context, once, and clears the wrapper; a
\* free of a released context succeeds and changes nothing; and every call
\* that checks the context fails on a released context and changes nothing.
ContextRelease ==
    [][\A c \in Ctxs :
           /\ (last'.op = "ggml_init" /\ last'.err = Ok /\ last'.id = c) =>
                  /\ CtxValid(c)'
                  /\ ggml'.ctx[c].ref_count = 1
                  /\ ggml'.ctx[c].frees = 0
           /\ (last'.op = "ggml_free" /\ last'.id = c /\ CtxValid(c)) =>
                  /\ last'.err = Ok
                  /\ ggml'.ctx[c].st = "null"
                  /\ ggml'.ctx[c].frees = 1
           /\ (last'.op = "ggml_free" /\ last'.id = c /\ ggml.ctx[c].frees > 0) =>
                  /\ last'.err = Ok
                  /\ ggml' = ggml
           /\ (last'.op \in CtxOps /\ last'.id = c /\ ggml.ctx[c].frees > 0) =>
                  /\ last'.err \in {InvalidCtx, InvalidArg}
                  /\ ggml' = ggml
           /\ ggml'.ctx[c].frees <= 1]_vars

\* C39 witness: an addition of two tensors in a released context has failed.
ContextReleaseWitness ==
    /\ last.op = "ggml_add"
    /\ last.err = InvalidArg
    /\ ggml.ctx[last.id].st = "null"
    /\ ggml.ctx[last.id].frees = 1
    /\ \E t \in Tensors : ggml.tensor[t].st = "live" /\ ggml.tensor[t].ctx = last.id

(***************************************************************************)
(* Snapshots next to reads and iterators                                   *)
(***************************************************************************)
GetFrame == \E h \in Handles, f \in BOOLEAN : IsOpen(h) /\ caml_rocksdb_get(h, 0, K_a, f)
ExistsFrame == \E h \in Handles : IsOpen(h) /\ caml_rocksdb_exists(h, 0, K_a, FALSE)

NextFrame ==
    \/ OpenStale \/ PutSnap \/ DeleteSnap \/ GetFrame \/ ExistsFrame
    \/ SnapshotCreateAny \/ SnapshotReleaseAny
    \/ IterCreateStale \/ IterSeekToFirstAny \/ IterValidAny
SpecFrame == Init /\ [][NextFrame]_vars

\* What namespace cf_index of the database of h holds under key now.
StoredNow(h, cf_index, key) == Lookup(store[db[h].path].data[CfRoute(h, cf_index)], key)

NextDestroyed ==
    \/ OpenStale \/ PutStale \/ IterCreateStale
    \/ IterSeekToFirstAny \/ IterSeekToLastAny \/ IterSeekStale
    \/ IterNextAny \/ IterPrevAny \/ IterValidAny \/ IterKeyAny \/ IterValueAny
    \/ IterDestroyAny
SpecDestroyed == Init /\ [][NextDestroyed]_vars

\* The calls on an iterator that fail on a destroyed one.
IterFailing == IterUses \ {"iter_valid"}

\* C37: destroy of a usable iterator leaves it destroyed; on a destroyed
\* iterator the cursor movements, key and value fail with the
\* invalid-iterator error, valid returns false and destroy returns normally;
\* none of these calls reaches the engine or changes anything.
AfterDestroy ==
    [][\A i \in Iters :
           /\ (last'.op = "iter_destroy" /\ last'.id = i /\ IterValid(i) /\ last'.err = Ok) =>
                  iter'[i].st = "null"
           /\ (iter[i].st = "null" /\ last'.id = i) =>
                  /\ last'.op \in IterFailing =>
                         /\ last'.err = InvalidIter
                         /\ last'.args = <<>>
                         /\ UNCHANGED <<store, db, batch, iter, snap>>
                  /\ last'.op = "iter_valid" =>
                         /\ last'.err = Ok
                         /\ last'.res = FALSE
                         /\ UNCHANGED <<store, db, batch, iter, snap>>
                  /\ last'.op = "iter_destroy" =>
                         /\ last'.err = Ok
                         /\ UNCHANGED <<store, db, batch, iter, snap>>]_vars

\* C37 witness: seek has failed on a destroyed iterator of a database that is
\* open and holds K_a.
AfterDestroyWitness ==
    /\ last.op = "iter_seek"
    /\ last.err = InvalidIter
    /\ iter[last.id].st = "null"
    /\ \E h \in Handles : IsOpen(h) /\ GetResult(h, 0, K_a) = Some(V_x)

(***************************************************************************)
(* The build without the storage engine                                    *)
(***************************************************************************)
OpenStub == \E p \in Paths, create_if_missing \in BOOLEAN : caml_rocksdb_open_stub(p, create_if_missing)
CloseStub == \E h \in Handles : caml_rocksdb_close_stub(h)
PutStub == \E h \in Handles, cf_index \in NsInputs, key \in {K_a, K_b}, val \in {V_x, V_y} : caml_rocksdb_put_stub(h, cf_index, key, val)
GetStub == \E h \in Handles, cf_index \in NsInputs, key \in {K_a, K_b} : caml_rocksdb_get_stub(h, cf_index, key)
DeleteStub == \E h \in Handles, cf_index \in NsInputs, key \in {K_a, K_b} : caml_rocksdb_delete_stub(h, cf_index, key)
ExistsStub == \E h \in Handles, cf_index \in NsInputs, key \in {K_a, K_b} : caml_rocksdb_exists_stub(h, cf_index, key)
BatchCreateStub == \E oom \in {FALSE} : caml_rocksdb_batch_create_stub(oom)
BatchPutStub == \E b \in Batches, key \in {K_a, K_b}, val \in {V_x, V_y} : caml_rocksdb_batch_put_stub(b, key, val)
BatchDeleteStub == \E b \in Batches, key \in {K_a, K_b} : caml_rocksdb_batch_delete_stub(b, key)
BatchClearStub == \E b \in Batches : caml_rocksdb_batch_clear_stub(b)
BatchWriteStub == \E h \in Handles, b \in Batches : caml_rocksdb_batch_write_stub(h, b)
IterCreateStub == \E h \in Handles, cf_index \in NsInputs : caml_rocksdb_iter_create_stub(h, cf_index)
IterSeekToFirstStub == \E i \in Iters : caml_rocksdb_iter_seek_to_first_stub(i)
IterSeekToLastStub == \E i \in Iters : caml_rocksdb_iter_seek_to_last_stub(i)
IterSeekStub == \E i \in Iters, key \in {K_a, K_b} : caml_rocksdb_iter_seek_stub(i, key)
IterNextStub == \E i \in Iters : caml_rocksdb_iter_next_stub(i)
IterPrevStub == \E i \in Iters : caml_rocksdb_iter_prev_stub(i)
IterKeyStub == \E i \in Iters : caml_rocksdb_iter_key_stub(i)
IterValueStub == \E i \in Iters : caml_rocksdb_iter_value_stub(i)
SnapshotCreateStub == \E h \in Handles : caml_rocksdb_snapshot_create_stub(h)
CompactRangeStub == \E h \in Handles, cf_index \in {0, 1} : caml_rocksdb_compact_range_stub(h, cf_index)
FlushStub == \E h \in Handles : caml_rocksdb_flush_stub(h)
IsOpenStub == \E h \in Handles : caml_rocksdb_is_open_stub(h)
BatchCountStub == \E b \in Batches : caml_rocksdb_batch_count_stub(b)
BatchDestroyStub == \E b \in Batches : caml_rocksdb_batch_destroy_stub(b)
IterValidStub == \E i \in Iters : caml_rocksdb_iter_valid_stub(i)
IterDestroyStub == \E i \in Iters : caml_rocksdb_iter_destroy_stub(i)
SnapshotReleaseStub == \E sn \in Snaps : caml_rocksdb_snapshot_release_stub(sn)
GetPropertyStub == \E h \in Handles, property \in PropNames : caml_rocksdb_get_property_stub(h, property)
BackendAvailableStub == \E u \in {0} : caml_rocksdb_backend_available_stub(u)

NextStub ==
    \/ OpenStub \/ CloseStub \/ PutStub \/ GetStub
    \/ DeleteStub \/ ExistsStub \/ BatchCreateStub \/ BatchPutStub
    \/ BatchDeleteStub \/ BatchClearStub \/ BatchWriteStub \/ IterCreateStub
    \/ IterSeekToFirstStub \/ IterSeekToLastStub \/ IterSeekStub \/ IterNextStub
    \/ IterPrevStub \/ IterKeyStub \/ IterValueStub \/ SnapshotCreateStub
    \/ CompactRangeStub \/ FlushStub \/ IsOpenStub \/ BatchCountStub
    \/ BatchDestroyStub \/ IterValidStub \/ IterDestroyStub \/ SnapshotReleaseStub
    \/ GetPropertyStub \/ BackendAvailableStub
SpecStub == Init /\ [][NextStub]_vars

\* The data and maintenance operations, open and close included.
StubRaising ==
    {"open", "close", "put", "get", "delete", "exists", "batch_create", "batch_put",
     "batch_delete", "batch_clear", "batch_write", "iter_create", "iter_seek_to_first",
     "iter_seek_to_last", "iter_seek", "iter_next", "iter_prev", "iter_key", "iter_value",
     "snapshot_create", "compact_range", "flush"}

\* C38: in the build without the engine no database, batch, iterator or
\* snapshot handle ever exists and no store is touched; open and every data or
\* maintenance operation fails with the not-available error; backend_available
\* and is_open return false, batch count 0, iterator valid false, get_property
\* no value, and batch destroy, iterator destroy and snapshot release return
\* normally.
StubBuild ==
    /\ \A h \in Handles : db[h] = NullDb
    /\ \A b \in Batches : batch[b] = NoBatch
    /\ \A i \in Iters : iter[i] = NoIter
    /\ \A sn \in Snaps : snap[sn] = NoSnap
    /\ \A p \in Paths : store[p] = NoStore
    /\ last.op \in StubRaising => last.err = NotAvailable
    /\ last.op \in {"backend_available", "is_open", "iter_valid"} =>
           (last.err = Ok /\ last.res = FALSE)
    /\ last.op = "batch_count" => (last.err = Ok /\ last.res = 0)
    /\ last.op = "get_property" => (last.err = Ok /\ last.res = None)
    /\ last.op \in {"batch_destroy", "iter_destroy", "snapshot_release"} => last.err = Ok
    /\ last.op \in StubRaising \cup {"init", "backend_available", "is_open", "iter_valid",
                                     "batch_count", "get_property", "batch_destroy",
                                     "iter_destroy", "snapshot_release"}

\* C38 witness: open has failed with the not-available error.
StubBuildWitness ==
    /\ last.op = "open"
    /\ last.args = <<"p", TRUE>>
    /\ last.err = NotAvailable

(***************************************************************************)
(* Opening a store that lacks namespaces                                   *)
(***************************************************************************)
\* The step is an open of path p, whose store exists and lacks some of the
\* n_cf families.
IsLazyOpen(p) ==
    /\ last'.op = "open"
    /\ last'.args[1] = p
    /\ store[p].cfs # {}
    /\ store[p].cfs # CFIdx

\* C34: an open of an existing store that lacks namespaces succeeds when the
\* store is not in use and the engine reports no error; and whenever it
\* succeeds the store holds every namespace, the new ones empty, and every
\* namespace that existed holds the entries it held, readable through the new
\* handle under its index.
LazyCreation ==
    [][\A p \in Paths :
           IsLazyOpen(p) =>
               /\ (~last'.fault /\ ~store[p].locked) => last'.err = Ok
               /\ last'.err = Ok =>
                      /\ store'[p].cfs = CFIdx
                      /\ \A c \in CFIdx \ store[p].cfs : store[p].data[c] = EmptyCF
                      /\ store'[p].data = store[p].data
                      /\ \A h \in Handles, c \in store[p].cfs, k \in Keys :
                             last'.id = h =>
                                 GetResult(h, c, k)' = Lookup(store[p].data[c], k)]_vars

(***************************************************************************)
(* The order of the releases of close                                      *)
(***************************************************************************)
\* The places of release x in the sequence r.
PlacesOf(r, x) == {n \in 1..Len(r) : r[n] = x}
\* x is released once in r, and before every release of y.
OnceBefore(r, x, y) ==
    /\ Cardinality(PlacesOf(r, x)) = 1
    /\ \A n \in PlacesOf(r, x), m \in PlacesOf(r, y) : n < m

\* C33: close of an open handle releases every namespace handle that is not
\* NULL once and no other, each before the engine handle; then the engine
\* handle, then the options, the write options and the read options; after
\* them it marks the wrapper closed and frees it; and the handle is closed.
ReleaseOrder ==
    [][\A h \in Handles :
           IsOpenCall("close", h) =>
               LET r == last'.args
               IN /\ \A c \in CFIdx :
                         IF c \in db[h].cf_handles
                         THEN OnceBefore(r, <<"cf_handle", c>>, <<"db", 0>>)
                         ELSE PlacesOf(r, <<"cf_handle", c>>) = {}
                  /\ OnceBefore(r, <<"db", 0>>, <<"options", 0>>)
                  /\ OnceBefore(r, <<"options", 0>>, <<"write_options", 0>>)
                  /\ OnceBefore(r, <<"write_options", 0>>, <<"read_options", 0>>)
                  /\ OnceBefore(r, <<"read_options", 0>>, <<"is_open", 0>>)
                  /\ OnceBefore(r, <<"is_open", 0>>, <<"wrapper", 0>>)
                  /\ PlacesOf(r, <<"wrapper", 0>>) = {Len(r)}
                  /\ db'[h].st = "closed"]_vars

\* C33 witness: a handle with namespace handles 2..7 and no handle for
\* namespace 1 has been closed.
ReleaseOrderWitness ==
    /\ last.op = "close"
    /\ last.res = TRUE
    /\ Len(last.args) = 13
    /\ last.args[1] = <<"cf_handle", 2>>
    /\ db[last.id].st = "closed"

(***************************************************************************)
(* Engine errors of the writes                                             *)
(***************************************************************************)
WriteValues == {V_x, V_y}

PutWrite == \E h \in Handles, n \in MaintNs, v \in WriteValues, f \in BOOLEAN :
                IsOpen(h) /\ caml_rocksdb_put(h, n, K_a, v, f)
DeleteWrite == \E h \in Handles, n \in MaintNs, f \in BOOLEAN :
                   IsOpen(h) /\ caml_rocksdb_delete(h, n, K_a, f)
GetWrite == \E h \in Handles, n \in MaintNs :
                IsOpen(h) /\ caml_rocksdb_get(h, n, K_a, FALSE)
BatchWriteWrite == \E h \in Handles, b \in Batches, f \in BOOLEAN :
                       IsOpen(h) /\ BatchValid(b) /\ caml_rocksdb_batch_write(h, b, f)

NextWrite ==
    \/ OpenMaint \/ PutWrite \/ DeleteWrite \/ GetWrite
    \/ BatchCreateLife \/ BatchPutPending \/ BatchDeletePending \/ BatchWriteWrite
SpecWrite == Init /\ [][NextWrite]_vars

WriteOps == {"put", "delete", "batch_write"}

\* C32: a put, a delete or a batch write through an open handle on which the
\* engine reports an error raises the backend error and leaves every store as
\* it was, so the write was not attempted again; and the call raises the
\* backend error only when the engine reported one.
WriteErrorsSurfaced ==
    [][\A h \in Handles, op \in WriteOps :
           IsOpenCall(op, h) =>
               /\ last'.fault =>
                      /\ last'.err = BackendFailed
                      /\ last'.res = FALSE
                      /\ store' = store
                      /\ lastMut' = lastMut
               /\ last'.err = BackendFailed => last'.fault]_vars

\* C32 witness: a put of a key failed in the engine, and the store holds
\* under the key the other value, written before.
WriteErrorsSurfacedWitness ==
    /\ last.op = "put"
    /\ last.fault
    /\ last.err = BackendFailed
    /\ IsOpen(last.id)
    /\ \E v \in WriteValues : GetResult(last.id, 0, K_a) = Some(v)

(***************************************************************************)
(* Several threads on one open handle                                      *)
(***************************************************************************)
\* The handle is opened and the batch is filled before the threads start.
OpenThreads == AllIdle /\ OpenStale
BatchCreateThreads == AllIdle /\ BatchCreateLife
BatchPutThreads == AllIdle /\ BatchPutPending

PutCall == \E t \in Threads, h \in Handles : put_call(t, h, 0, K_a, V_y)
PutEngine == \E t \in Threads : put_engine(t, FALSE)
DeleteCall == \E t \in Threads, h \in Handles : delete_call(t, h, 0, K_b)
DeleteEngine == \E t \in Threads : delete_engine(t, FALSE)
GetCall == \E t \in Threads, h \in Handles, k \in {K_a, K_b} : get_call(t, h, 0, k)
GetEngine == \E t \in Threads : get_engine(t, FALSE)
ExistsCall == \E t \in Threads, h \in Handles : exists_call(t, h, 0, K_b)
ExistsEngine == \E t \in Threads : exists_engine(t, FALSE)
BatchWriteCall == \E t \in Threads, h \in Handles, b \in Batches : batch_write_call(t, h, b)
BatchWriteEngine == \E t \in Threads, f \in BOOLEAN : batch_write_engine(t, f)

NextThreads ==
    \/ OpenThreads \/ BatchCreateThreads \/ BatchPutThreads
    \/ PutCall \/ PutEngine \/ DeleteCall \/ DeleteEngine
    \/ GetCall \/ GetEngine \/ ExistsCall \/ ExistsEngine
    \/ BatchWriteCall \/ BatchWriteEngine
SpecThreads == Init /\ [][NextThreads]_vars

\* What call c, run alone as one whole call, makes of the stores s.
SerialEffect(c, s) ==
    LET p == db[c.h].path
        cf == IF c.cf_index \in db[c.h].cf_handles \ {0} THEN c.cf_index ELSE 0
    IN CASE c.op = "put" -> [s EXCEPT ![p].data[cf] = Upsert(@, c.key, c.val)]
         [] c.op = "delete" -> [s EXCEPT ![p].data[cf] = Remove(@, c.key)]
         [] c.op = "batch_write" -> OneByOne(s, p, batch[c.b].ops)
         [] OTHER -> s

\* What call c, run alone on the stores s, returns.
SerialResult(c, s) ==
    LET p == db[c.h].path
        cf == IF c.cf_index \in db[c.h].cf_handles \ {0} THEN c.cf_index ELSE 0
    IN CASE c.op = "get" -> Lookup(s[p].data[cf], c.key)
         [] c.op = "exists" -> Lookup(s[p].data[cf], c.key) # None
         [] OTHER -> TRUE

\* C31: with several threads calling put, delete, get, exists and batch write
\* on one open handle, the stored entries change only in the step in which a
\* call completes; that step leaves the stores as the call run alone on the
\* stores before it leaves them (all operations of a batch, or none when
\* the engine fails the batch) and returns what the call run alone returns,
\* and it changes no other thread's call.  The calls therefore take effect
\* one after another, in the order of these steps, and no read sees a batch
\* in part.
ThreadsSerial ==
    [][/\ \A t \in Threads :
              (InFlight(t) /\ ~InFlight(t)') =>
                  LET c == calls[t]
                  IN /\ last'.op = c.op /\ last'.id = c.h
                     /\ \A u \in Threads \ {t} : calls'[u] = calls[u]
                     /\ IF last'.fault
                        THEN store' = store
                        ELSE /\ store' = SerialEffect(c, store)
                             /\ last'.err = Ok
                             /\ last'.res = SerialResult(c, store)
       /\ (\E p \in Paths : store'[p].data # store[p].data) =>
              \E t \in Threads : InFlight(t) /\ ~InFlight(t)']_vars

\* C31 witness: a batch of two operations was committed while another
\* thread's call was in flight.
ThreadsSerialWitness ==
    /\ last.op = "batch_write"
    /\ last.err = Ok
    /\ \E b \in Batches : last.args = <<b>> /\ batch[b].n_ops = 2
    /\ \E t \in Threads : InFlight(t) /\ calls[t].op \in {"get", "exists"}

==============================================================================
